---- MODULE Spec2Model ----
(***************************************************************************)
(* Model of the flakiness-report package: the traversal utilities          *)
(* (findTest, visitTests, visitTestsAsync) and the report validators.      *)
(*                                                                         *)
(* JavaScript objects are identified by their position in the report: a    *)
(* Suite by the path of array indices leading to it from Report.suites, a  *)
(* Test by the path of its containing suite plus its index in that suite's *)
(* tests array (the empty path stands for the report root).                *)
(***************************************************************************)
EXTENDS Integers, Sequences, FiniteSets, TLC

VARIABLES
  report,     \* the Report handed to the traversal functions
  running,    \* the traversal function currently executing, or "none"
  rootIdx,    \* position of the top-level `for (const suite of report.suites)`
  stack,      \* call stack of visitSuite activations, innermost last
  parents,    \* the `parents` array shared by the activations of one root call
  calls,      \* per function: the callback invocations made so far
  outcome,    \* per function: "none", "returned", "threw" or "rejected"
  found,      \* the value returned by findTest
  doc,          \* the document handed to the validators
  v1Result,     \* what V1.validate returned for it
  legacyResult, \* what FlakinessReport.validate returned for it
  heap,         \* the report objects in memory, by reference (position)
  position,     \* the line migrateToV1 is at, or 0 outside a call
  input,        \* migrateToV1's `input`: a reference into the heap
  env,          \* position of `for (const env of input.environments)`
  given,        \* per call of migrateToV1: the argument and its value at the call
  returned,     \* per call of migrateToV1: the reference it returned
  latest        \* the argument of migrateToLatest and the reference it returned

tvars == <<report, running, rootIdx, stack, parents, calls, outcome, found>>

vvars == <<doc, v1Result, legacyResult>>

mvars == <<heap, position, input, env, given, returned, latest>>

vars == <<report, running, rootIdx, stack, parents, calls, outcome, found,
          doc, v1Result, legacyResult, heap, position, input, env, given, returned, latest>>

\* migrateToLatest has not been called.
NoLatest == [arg |-> 0, result |-> 0]

\* No report is being migrated.
NoMigration ==
  /\ latest = NoLatest
  /\ heap = <<>>
  /\ position = 0
  /\ input = 0
  /\ env = 0
  /\ given = <<>>
  /\ returned = <<>>

-----------------------------------------------------------------------------
(* Bounds of the explored reports.                                         *)

MaxSuites == 3      \* total number of Suite objects in Report.suites
MaxTests == 2       \* tests per suite
MaxRootTests == 1   \* tests in the root-level Report.tests array

-----------------------------------------------------------------------------
(* Optional arrays: `x?: T[]` is either absent or an array.                *)

Absent == [t |-> "absent", a |-> <<>>]
Arr(s) == [t |-> "array", a |-> s]

\* `x ?? []`
OrEmpty(x) == IF x.t = "array" THEN x.a ELSE <<>>

TestObj == [title |-> "t"]

TestArrays(n) == {Absent} \cup {Arr([i \in 1..k |-> TestObj]) : k \in 1..n}

RECURSIVE ForestsOfSize(_)
\* All ordered forests with exactly n Suite objects.  A suite without child
\* suites has no `suites` key; a suite without tests has no `tests` key.
ForestsOfSize(n) ==
  IF n = 0 THEN {<<>>}
  ELSE UNION { { <<[title |-> "s",
                    tests |-> ts,
                    suites |-> IF c = <<>> THEN Absent ELSE Arr(c)]>> \o rest :
                   ts \in TestArrays(MaxTests),
                   c \in ForestsOfSize(k - 1),
                   rest \in ForestsOfSize(n - k) } : k \in 1..n }

Reports ==
  [suites : UNION {ForestsOfSize(n) : n \in 0..MaxSuites},
   tests : TestArrays(MaxRootTests)]

-----------------------------------------------------------------------------
(* Object references.                                                      *)

SuiteRef(path) == [kind |-> "suite", at |-> path, idx |-> 0]
TestRef(path, i) == [kind |-> "test", at |-> path, idx |-> i]

RECURSIVE SuiteIn(_, _)
\* The Suite object reached from the array `arr` by the index path `path`.
SuiteIn(arr, path) ==
  IF Len(path) = 1 THEN arr[path[1]]
  ELSE SuiteIn(OrEmpty(arr[path[1]].suites), Tail(path))

SuiteAt(path) == SuiteIn(report.suites, path)

Top == stack[Len(stack)]

\* An activation of visitSuite: its suite, the line it is at, the position of
\* the loop it is in, and the visitor call whose promise it awaits (0: none).
Frame(path, pc) == [suite |-> path, pc |-> pc, i |-> 1, p |-> 0]

SetTop(f) == [stack EXCEPT ![Len(stack)] = f]

Pop(s) == SubSeq(s, 1, Len(s) - 1)

Call(test, ps, ret) == [test |-> test, parents |-> ps, ret |-> ret]

Functions == {"findTest", "visitTests", "visitTestsAsync"}

\* Return from the innermost visitSuite activation without a value: the
\* calling loop (a parent's `suite.suites` loop, or the top-level loop over
\* report.suites) moves on to its next element.
ReturnFromSuite ==
  IF Len(stack) = 1
    THEN /\ stack' = <<>>
         /\ rootIdx' = rootIdx + 1
    ELSE /\ stack' = [Pop(stack) EXCEPT ![Len(stack) - 1].i = @ + 1]
         /\ rootIdx' = rootIdx

\* An exception leaves the function: every activation is unwound, nothing is
\* popped from `parents`, and the scenario ends.
Throw(fn, how) ==
  /\ stack' = <<>>
  /\ running' = "none"
  /\ outcome' = [outcome EXCEPT ![fn] = how]

-----------------------------------------------------------------------------
(* visitTests, flakinessReport.ts lines 290-301.                           *)

\* CallVisitTests, wrongly visiting the root-level report.tests first.
CallVisitTests_RootTests ==
  /\ running = "none"
  /\ outcome["visitTests"] = "none"
  /\ running' = "visitTests"
  /\ rootIdx' = 1
  /\ calls' = [calls EXCEPT !["visitTests"] =
                 [i \in 1..Len(OrEmpty(report.tests)) |-> Call(TestRef(<<>>, i), <<>>, "returned")]]
  /\ UNCHANGED <<vvars, mvars, report, stack, parents, outcome, found>>

CallVisitTests ==
  /\ running = "none"
  /\ outcome["visitTests"] = "none"
  /\ running' = "visitTests"
  /\ rootIdx' = 1
  /\ UNCHANGED <<vvars, mvars, report, stack, parents, calls, outcome, found>>

\* lines 299-300: for (const suite of report.suites) visitSuite(suite, []);
VT_Root ==
  /\ running = "visitTests"
  /\ stack = <<>>
  /\ IF rootIdx <= Len(report.suites)
       THEN /\ stack' = <<Frame(<<rootIdx>>, 292)>>
            /\ parents' = <<>>
            /\ UNCHANGED <<running, outcome>>
       ELSE /\ running' = "none"
            /\ outcome' = [outcome EXCEPT !["visitTests"] = "returned"]
            /\ UNCHANGED <<stack, parents>>
  /\ UNCHANGED <<vvars, mvars, report, rootIdx, calls, found>>

\* line 292: parents.push(suite);
VT_Push ==
  /\ running = "visitTests"
  /\ stack # <<>>
  /\ Top.pc = 292
  /\ parents' = Append(parents, SuiteRef(Top.suite))
  /\ stack' = SetTop([Top EXCEPT !.pc = 293, !.i = 1])
  /\ UNCHANGED <<vvars, mvars, report, running, rootIdx, calls, outcome, found>>

\* VT_Tests with an off-by-one loop bound: the last test of a suite is skipped.
VT_Tests_OffByOne ==
  /\ running = "visitTests"
  /\ stack # <<>>
  /\ Top.pc = 293
  /\ IF Top.i < Len(OrEmpty(SuiteAt(Top.suite).tests))
       THEN \E ret \in {"returned", "threw"} :
              /\ calls' = [calls EXCEPT !["visitTests"] =
                             Append(@, Call(TestRef(Top.suite, Top.i), parents, ret))]
              /\ IF ret = "returned"
                   THEN /\ stack' = SetTop([Top EXCEPT !.i = @ + 1])
                        /\ UNCHANGED <<running, outcome>>
                   ELSE Throw("visitTests", "threw")
       ELSE /\ stack' = SetTop([Top EXCEPT !.pc = 295, !.i = 1])
            /\ UNCHANGED <<calls, running, outcome>>
  /\ UNCHANGED <<vvars, mvars, report, rootIdx, parents, found>>

\* lines 293-294: for (const test of suite.tests ?? []) testVisitor(test, parents);
\* The visitor either returns or throws.
VT_Tests ==
  /\ running = "visitTests"
  /\ stack # <<>>
  /\ Top.pc = 293
  /\ IF Top.i <= Len(OrEmpty(SuiteAt(Top.suite).tests))
       THEN \E ret \in {"returned", "threw"} :
              /\ calls' = [calls EXCEPT !["visitTests"] =
                             Append(@, Call(TestRef(Top.suite, Top.i), parents, ret))]
              /\ IF ret = "returned"
                   THEN /\ stack' = SetTop([Top EXCEPT !.i = @ + 1])
                        /\ UNCHANGED <<running, outcome>>
                   ELSE Throw("visitTests", "threw")
       ELSE /\ stack' = SetTop([Top EXCEPT !.pc = 295, !.i = 1])
            /\ UNCHANGED <<calls, running, outcome>>
  /\ UNCHANGED <<vvars, mvars, report, rootIdx, parents, found>>

\* lines 295-296: for (const childSuite of suite.suites ?? []) visitSuite(childSuite, parents);
VT_Suites ==
  /\ running = "visitTests"
  /\ stack # <<>>
  /\ Top.pc = 295
  /\ IF Top.i <= Len(OrEmpty(SuiteAt(Top.suite).suites))
       THEN stack' = Append(stack, Frame(Append(Top.suite, Top.i), 292))
       ELSE stack' = SetTop([Top EXCEPT !.pc = 297])
  /\ UNCHANGED <<vvars, mvars, report, running, rootIdx, parents, calls, outcome, found>>

\* VT_Pop without the pop: the suite stays on `parents` after its visit.
VT_Pop_NoPop ==
  /\ running = "visitTests"
  /\ stack # <<>>
  /\ Top.pc = 297
  /\ parents' = parents
  /\ ReturnFromSuite
  /\ UNCHANGED <<vvars, mvars, report, running, calls, outcome, found>>

\* line 297: parents.pop(); and the return of visitSuite.
VT_Pop ==
  /\ running = "visitTests"
  /\ stack # <<>>
  /\ Top.pc = 297
  /\ parents' = Pop(parents)
  /\ ReturnFromSuite
  /\ UNCHANGED <<vvars, mvars, report, running, calls, outcome, found>>

-----------------------------------------------------------------------------
(* visitTestsAsync, flakinessReport.ts lines 303-314.                      *)

CallVisitTestsAsync ==
  /\ running = "none"
  /\ outcome["visitTests"] = "returned"
  /\ outcome["visitTestsAsync"] = "none"
  /\ running' = "visitTestsAsync"
  /\ rootIdx' = 1
  /\ UNCHANGED <<vvars, mvars, report, stack, parents, calls, outcome, found>>

\* lines 312-313: for (const suite of report.suites) await visitSuite(suite, []);
VTA_Root ==
  /\ running = "visitTestsAsync"
  /\ stack = <<>>
  /\ IF rootIdx <= Len(report.suites)
       THEN /\ stack' = <<Frame(<<rootIdx>>, 305)>>
            /\ parents' = <<>>
            /\ UNCHANGED <<running, outcome>>
       ELSE /\ running' = "none"
            /\ outcome' = [outcome EXCEPT !["visitTestsAsync"] = "returned"]
            /\ UNCHANGED <<stack, parents>>
  /\ UNCHANGED <<vvars, mvars, report, rootIdx, calls, found>>

\* VTA_Tests walking a suite's tests from the last to the first.
VTA_Tests_Reversed ==
  /\ running = "visitTestsAsync"
  /\ stack # <<>>
  /\ Top.pc = 305
  /\ IF Top.i <= Len(OrEmpty(SuiteAt(Top.suite).tests))
       THEN /\ calls' = [calls EXCEPT !["visitTestsAsync"] =
                           Append(@, Call(TestRef(Top.suite,
                                                  Len(OrEmpty(SuiteAt(Top.suite).tests)) - Top.i + 1),
                                          parents, "pending"))]
            /\ stack' = SetTop([Top EXCEPT !.pc = 306,
                                           !.p = Len(calls["visitTestsAsync"]) + 1])
       ELSE /\ stack' = SetTop([Top EXCEPT !.pc = 307])
            /\ UNCHANGED calls
  /\ UNCHANGED <<vvars, mvars, report, running, rootIdx, parents, outcome, found>>

\* VTA_Tests without the `await`: the loop goes on to the next test while the
\* visitor's promise is still pending.
VTA_Tests_NoAwait ==
  /\ running = "visitTestsAsync"
  /\ stack # <<>>
  /\ Top.pc = 305
  /\ IF Top.i <= Len(OrEmpty(SuiteAt(Top.suite).tests))
       THEN /\ calls' = [calls EXCEPT !["visitTestsAsync"] =
                           Append(@, Call(TestRef(Top.suite, Top.i), parents, "pending"))]
            /\ stack' = SetTop([Top EXCEPT !.i = @ + 1])
       ELSE /\ stack' = SetTop([Top EXCEPT !.pc = 307])
            /\ UNCHANGED calls
  /\ UNCHANGED <<vvars, mvars, report, running, rootIdx, parents, outcome, found>>

\* lines 305-306: for (const test of suite.tests ?? []) await testVisitor(test, parents);
\* The visitor is called and hands back a promise; the activation suspends on it.
VTA_Tests ==
  /\ running = "visitTestsAsync"
  /\ stack # <<>>
  /\ Top.pc = 305
  /\ IF Top.i <= Len(OrEmpty(SuiteAt(Top.suite).tests))
       THEN /\ calls' = [calls EXCEPT !["visitTestsAsync"] =
                           Append(@, Call(TestRef(Top.suite, Top.i), parents, "pending"))]
            /\ stack' = SetTop([Top EXCEPT !.pc = 306,
                                           !.p = Len(calls["visitTestsAsync"]) + 1])
       ELSE /\ stack' = SetTop([Top EXCEPT !.pc = 307])
            /\ UNCHANGED calls
  /\ UNCHANGED <<vvars, mvars, report, running, rootIdx, parents, outcome, found>>

\* The caller's visitor settles one of the promises it handed out.
VisitorSettles ==
  /\ running = "visitTestsAsync"
  /\ \E k \in DOMAIN calls["visitTestsAsync"], r \in {"resolved", "rejected"} :
       /\ calls["visitTestsAsync"][k].ret = "pending"
       /\ calls' = [calls EXCEPT !["visitTestsAsync"][k].ret = r]
  /\ UNCHANGED <<vvars, mvars, report, running, rootIdx, stack, parents, outcome, found>>

\* Line 306 with a rejection swallowed: the loop goes on as after a resolution.
VTA_Await_Swallowed ==
  /\ running = "visitTestsAsync"
  /\ stack # <<>>
  /\ Top.pc = 306
  /\ calls["visitTestsAsync"][Top.p].ret # "pending"
  /\ stack' = SetTop([Top EXCEPT !.pc = 305, !.i = @ + 1, !.p = 0])
  /\ UNCHANGED <<running, outcome>>
  /\ UNCHANGED <<vvars, mvars, report, rootIdx, parents, calls, found>>

\* line 306, the continuation of `await`: runs once the awaited promise has settled.
VTA_Await ==
  /\ running = "visitTestsAsync"
  /\ stack # <<>>
  /\ Top.pc = 306
  /\ calls["visitTestsAsync"][Top.p].ret # "pending"
  /\ IF calls["visitTestsAsync"][Top.p].ret = "resolved"
       THEN /\ stack' = SetTop([Top EXCEPT !.pc = 305, !.i = @ + 1, !.p = 0])
            /\ UNCHANGED <<running, outcome>>
       ELSE Throw("visitTestsAsync", "rejected")
  /\ UNCHANGED <<vvars, mvars, report, rootIdx, parents, calls, found>>

\* line 307: parents.push(suite);
VTA_Push ==
  /\ running = "visitTestsAsync"
  /\ stack # <<>>
  /\ Top.pc = 307
  /\ parents' = Append(parents, SuiteRef(Top.suite))
  /\ stack' = SetTop([Top EXCEPT !.pc = 308, !.i = 1])
  /\ UNCHANGED <<vvars, mvars, report, running, rootIdx, calls, outcome, found>>

\* lines 308-309: for (const childSuite of suite.suites ?? []) await visitSuite(childSuite, parents);
VTA_Suites ==
  /\ running = "visitTestsAsync"
  /\ stack # <<>>
  /\ Top.pc = 308
  /\ IF Top.i <= Len(OrEmpty(SuiteAt(Top.suite).suites))
       THEN stack' = Append(stack, Frame(Append(Top.suite, Top.i), 305))
       ELSE stack' = SetTop([Top EXCEPT !.pc = 310])
  /\ UNCHANGED <<vvars, mvars, report, running, rootIdx, parents, calls, outcome, found>>

\* line 310: parents.pop(); and the resolution of visitSuite's promise.
VTA_Pop ==
  /\ running = "visitTestsAsync"
  /\ stack # <<>>
  /\ Top.pc = 310
  /\ parents' = Pop(parents)
  /\ ReturnFromSuite
  /\ UNCHANGED <<vvars, mvars, report, running, calls, outcome, found>>

-----------------------------------------------------------------------------
(* findTest, flakinessReport.ts lines 269-288.                             *)

Undefined == [kind |-> "undefined", at |-> <<>>, idx |-> 0]
NoValue == [kind |-> "none", at |-> <<>>, idx |-> 0]

CallFindTest ==
  /\ running = "none"
  /\ outcome["visitTestsAsync"] = "returned"
  /\ outcome["findTest"] = "none"
  /\ running' = "findTest"
  /\ rootIdx' = 1
  /\ UNCHANGED <<vvars, mvars, report, stack, parents, calls, outcome, found>>

\* lines 283-287: for (const suite of report.suites) { const test = visitSuite(suite, []); ... }
\* and the implicit `return undefined` after the loop.
FT_Root ==
  /\ running = "findTest"
  /\ stack = <<>>
  /\ IF rootIdx <= Len(report.suites)
       THEN /\ stack' = <<Frame(<<rootIdx>>, 271)>>
            /\ parents' = <<>>
            /\ UNCHANGED <<running, outcome, found>>
       ELSE /\ running' = "none"
            /\ outcome' = [outcome EXCEPT !["findTest"] = "returned"]
            /\ found' = Undefined
            /\ UNCHANGED <<stack, parents>>
  /\ UNCHANGED <<vvars, mvars, report, rootIdx, calls>>

\* FT_Tests where the caller of visitSuite drops a returned test (no
\* `if (test) return test`) and carries on with its next suite.
FT_Tests_NoShortCircuit ==
  /\ running = "findTest"
  /\ stack # <<>>
  /\ Top.pc = 271
  /\ IF Top.i <= Len(OrEmpty(SuiteAt(Top.suite).tests))
       THEN \E ret \in {"true", "false", "threw"} :
              /\ calls' = [calls EXCEPT !["findTest"] =
                             Append(@, Call(TestRef(Top.suite, Top.i), parents, ret))]
              /\ CASE ret = "false" ->
                        /\ stack' = SetTop([Top EXCEPT !.i = @ + 1])
                        /\ UNCHANGED <<running, outcome, found>>
                   [] ret = "true" ->
                        /\ stack' = SetTop([Top EXCEPT !.pc = 275])
                        /\ UNCHANGED <<running, outcome, found>>
                   [] ret = "threw" ->
                        /\ Throw("findTest", "threw")
                        /\ UNCHANGED found
       ELSE /\ stack' = SetTop([Top EXCEPT !.pc = 275])
            /\ UNCHANGED <<calls, running, outcome, found>>
  /\ UNCHANGED <<vvars, mvars, report, rootIdx, parents>>

\* lines 271-274: for (const test of suite.tests ?? []) if (testPredicate(test, parents)) return test;
\* A returned test is truthy, so every enclosing activation (lines 278-279)
\* and the top-level loop (lines 285-286) return it at once.
FT_Tests ==
  /\ running = "findTest"
  /\ stack # <<>>
  /\ Top.pc = 271
  /\ IF Top.i <= Len(OrEmpty(SuiteAt(Top.suite).tests))
       THEN \E ret \in {"true", "false", "threw"} :
              /\ calls' = [calls EXCEPT !["findTest"] =
                             Append(@, Call(TestRef(Top.suite, Top.i), parents, ret))]
              /\ CASE ret = "false" ->
                        /\ stack' = SetTop([Top EXCEPT !.i = @ + 1])
                        /\ UNCHANGED <<running, outcome, found>>
                   [] ret = "true" ->
                        /\ stack' = <<>>
                        /\ running' = "none"
                        /\ outcome' = [outcome EXCEPT !["findTest"] = "returned"]
                        /\ found' = TestRef(Top.suite, Top.i)
                   [] ret = "threw" ->
                        /\ Throw("findTest", "threw")
                        /\ UNCHANGED found
       ELSE /\ stack' = SetTop([Top EXCEPT !.pc = 275])
            /\ UNCHANGED <<calls, running, outcome, found>>
  /\ UNCHANGED <<vvars, mvars, report, rootIdx, parents>>

\* line 275: parents.push(suite);
FT_Push ==
  /\ running = "findTest"
  /\ stack # <<>>
  /\ Top.pc = 275
  /\ parents' = Append(parents, SuiteRef(Top.suite))
  /\ stack' = SetTop([Top EXCEPT !.pc = 276, !.i = 1])
  /\ UNCHANGED <<vvars, mvars, report, running, rootIdx, calls, outcome, found>>

\* lines 276-280: for (const childSuite of suite.suites ?? []) { const test = visitSuite(childSuite, parents); ... }
FT_Suites ==
  /\ running = "findTest"
  /\ stack # <<>>
  /\ Top.pc = 276
  /\ IF Top.i <= Len(OrEmpty(SuiteAt(Top.suite).suites))
       THEN stack' = Append(stack, Frame(Append(Top.suite, Top.i), 271))
       ELSE stack' = SetTop([Top EXCEPT !.pc = 281])
  /\ UNCHANGED <<vvars, mvars, report, running, rootIdx, parents, calls, outcome, found>>

\* Line 281 without the pop.
FT_Pop_NoPop ==
  /\ running = "findTest"
  /\ stack # <<>>
  /\ Top.pc = 281
  /\ UNCHANGED parents
  /\ ReturnFromSuite
  /\ UNCHANGED <<vvars, mvars, report, running, calls, outcome, found>>

\* line 281: parents.pop(); visitSuite then returns undefined.
FT_Pop ==
  /\ running = "findTest"
  /\ stack # <<>>
  /\ Top.pc = 281
  /\ parents' = Pop(parents)
  /\ ReturnFromSuite
  /\ UNCHANGED <<vvars, mvars, report, running, calls, outcome, found>>

\* The validators' variables while only the traversal functions are run.
NoDocument == [category |-> [t |-> "absent", n |-> 0, s |-> ""]]
NotCalled == [t |-> "none", lines |-> <<>>]

-----------------------------------------------------------------------------
(* The traversal scenario: one report, on which visitTests, then           *)
(* visitTestsAsync, then findTest are run; an exception ends the scenario. *)

InitTraversal ==
  /\ NoMigration
  /\ report \in Reports
  /\ running = "none"
  /\ rootIdx = 1
  /\ stack = <<>>
  /\ parents = <<>>
  /\ calls = [f \in Functions |-> <<>>]
  /\ outcome = [f \in Functions |-> "none"]
  /\ found = NoValue
  /\ doc = NoDocument
  /\ v1Result = NotCalled
  /\ legacyResult = NotCalled

NextTraversal ==
  \/ CallVisitTests \/ VT_Root \/ VT_Push \/ VT_Tests \/ VT_Suites \/ VT_Pop
  \/ CallVisitTestsAsync \/ VTA_Root \/ VTA_Tests \/ VisitorSettles \/ VTA_Await
  \/ VTA_Push \/ VTA_Suites \/ VTA_Pop
  \/ CallFindTest \/ FT_Root \/ FT_Tests \/ FT_Push \/ FT_Suites \/ FT_Pop

SpecTraversal == InitTraversal /\ [][NextTraversal]_vars

\* The same scenario with the progress the event loop gives visitTestsAsync:
\* a continuation that can run does run (the steps of the async function), and
\* every promise handed out by the visitor is settled in the end.
SpecTraversalFair ==
  /\ SpecTraversal
  /\ WF_vars(VTA_Root)
  /\ WF_vars(VTA_Tests)
  /\ WF_vars(VTA_Await)
  /\ WF_vars(VTA_Push)
  /\ WF_vars(VTA_Suites)
  /\ WF_vars(VTA_Pop)
  /\ WF_vars(VisitorSettles)

TypeOK ==
  /\ running \in Functions \cup {"none"}
  /\ \A f \in Functions : outcome[f] \in {"none", "returned", "threw", "rejected"}
  /\ Len(parents) <= MaxSuites

-----------------------------------------------------------------------------
(* JSON values handed to the validators.  A scalar is a tagged value; a    *)
(* key that is missing from an object reads as undefined.  An object is a  *)
(* record that lists every key its schemas know, missing ones included.    *)

Missing == [t |-> "absent", n |-> 0, s |-> ""]
Num(k) == [t |-> "number", n |-> k, s |-> ""]
\* The non-integer number k + 0.5 (its fraction is kept in the text field).
Half(k) == [t |-> "number", n |-> k, s |-> ".5"]
Str(x) == [t |-> "string", n |-> 0, s |-> x]

\* `value === undefined`, which is also what reading a missing key gives.
IsUndefined(v) == v.t \in {"absent", "undefined"}

-----------------------------------------------------------------------------
(* The zod schema combinators used by the schemas.  Parsing a value gives  *)
(* the sequence of issues found, each with the path of the offending value.*)

Issue(path, code) == [path |-> path, code |-> code]

\* z.string().min(lo).max(hi)
ZString(v, path, lo, hi) ==
  IF v.t # "string" THEN <<Issue(path, "invalid_type")>>
  ELSE (IF Len(v.s) < lo THEN <<Issue(path, "too_small")>> ELSE <<>>)
         \o (IF Len(v.s) > hi THEN <<Issue(path, "too_big")>> ELSE <<>>)

\* z.string().min(lo)
ZStringMin(v, path, lo) ==
  IF v.t # "string" THEN <<Issue(path, "invalid_type")>>
  ELSE IF Len(v.s) < lo THEN <<Issue(path, "too_small")>> ELSE <<>>

\* z.string()
ZAnyString(v, path) ==
  IF v.t # "string" THEN <<Issue(path, "invalid_type")>> ELSE <<>>

\* z.number()
ZNumber(v, path) ==
  IF v.t # "number" THEN <<Issue(path, "invalid_type")>> ELSE <<>>

\* z.number().min(lo)
ZNumberMin(v, path, lo) ==
  IF v.t # "number" THEN <<Issue(path, "invalid_type")>>
  ELSE IF v.n < lo THEN <<Issue(path, "too_small")>> ELSE <<>>

\* z.number().min(lo).max(hi)
ZNumberRange(v, path, lo, hi) ==
  IF v.t # "number" THEN <<Issue(path, "invalid_type")>>
  ELSE (IF v.n < lo THEN <<Issue(path, "too_small")>> ELSE <<>>)
         \o (IF v.n > hi \/ (v.n = hi /\ v.s # "") THEN <<Issue(path, "too_big")>> ELSE <<>>)

\* z.enum([...]) and z.literal(...)
ZOneOf(v, path, allowed) ==
  IF v \in allowed THEN <<>> ELSE <<Issue(path, "invalid_value")>>

RECURSIVE Parse(_, _, _)

RECURSIVE ZItems(_, _, _, _)
\* The issues of the elements s[k], s[k+1], ... of an array, each parsed by the
\* schema named `schema` under the path of its (0-based) index.
ZItems(schema, s, path, k) ==
  IF k > Len(s) THEN <<>>
  ELSE Parse(schema, s[k], Append(path, ToString(k - 1))) \o ZItems(schema, s, path, k + 1)

\* z.array(schema)
ZArray(schema, v, path) ==
  IF v.t # "array" THEN <<Issue(path, "invalid_type")>>
  ELSE ZItems(schema, v.a, path, 1)

\* z.array(schema).optional()
ZOptionalArray(schema, v, path) ==
  IF IsUndefined(v) THEN <<>> ELSE ZArray(schema, v, path)

\* A z.object schema applied to a value: v.o holds the object's keys.
ZObject(schema, v, path) ==
  IF v.t # "object" THEN <<Issue(path, "invalid_type")>>
  ELSE Parse(schema, v.o, path)

\* schema.optional() for a z.object schema.
ZOptionalObject(schema, v, path) ==
  IF IsUndefined(v) THEN <<>> ELSE ZObject(schema, v, path)

-----------------------------------------------------------------------------
(* namespace Schema, v1/reportV1.ts lines 530-679.                         *)

\* CommitId with the lower bound only.
CommitId_NoMax(v, path) == ZStringMin(v, path, 40)

CommitId(v, path) == ZString(v, path, 40, 40)
AttachmentId(v, path) == ZString(v, path, 1, 1024)
UnixTimestampMS(v, path) == ZNumberMin(v, path, 0)
\* DurationMS without its lower bound.
DurationMS_NoMin(v, path) == ZNumber(v, path)

DurationMS(v, path) == ZNumberMin(v, path, 0)
Number1Based(v, path) == ZNumber(v, path)
GitFilePath(v, path) == ZStringMin(v, path, 0)

\* .optional() applied to a scalar schema whose issues are `issues`.
Optional(v, issues) == IF IsUndefined(v) THEN <<>> ELSE issues

Location(v, path) ==
  GitFilePath(v.file, Append(path, "file"))
    \o Number1Based(v.line, Append(path, "line"))
    \o Number1Based(v.column, Append(path, "column"))

TestStatus(v, path) ==
  ZOneOf(v, path, {Str("passed"), Str("failed"), Str("timedOut"), Str("skipped"), Str("interrupted")})

SystemData(v, path) ==
  Optional(v.osName, ZAnyString(v.osName, Append(path, "osName")))
    \o Optional(v.osVersion, ZAnyString(v.osVersion, Append(path, "osVersion")))
    \o Optional(v.osArch, ZAnyString(v.osArch, Append(path, "osArch")))

\* metadata and userSuppliedData are z.any().optional(): nothing is checked.
Environment(v, path) ==
  ZString(v.name, Append(path, "name"), 1, 512)
    \o ZOptionalObject("SystemData", v.systemData, Append(path, "systemData"))

\* z.union of { text: string } and { buffer: string }: one issue when no
\* variant accepts the entry.
\* The option of the union z.union([{text}, {buffer}]) whose result is taken
\* for an entry: the first one the entry parses under (keys an option does not
\* name are dropped, not refused), or 0 when it parses under neither.
STDIOEntryOption(v) ==
  IF ZAnyString(v.text, <<"text">>) = <<>> THEN 1
  ELSE IF ZAnyString(v.buffer, <<"buffer">>) = <<>> THEN 2
  ELSE 0

\* STDIOEntry with the text option alone.
STDIOEntry_TextOnly(v, path) ==
  IF ZAnyString(v.text, Append(path, "text")) = <<>> THEN <<>>
  ELSE <<Issue(path, "invalid_union")>>

STDIOEntry(v, path) ==
  IF ZAnyString(v.text, Append(path, "text")) = <<>> THEN <<>>
  ELSE IF ZAnyString(v.buffer, Append(path, "buffer")) = <<>> THEN <<>>
  ELSE <<Issue(path, "invalid_union")>>

ReportError(v, path) ==
  ZOptionalObject("Location", v.location, Append(path, "location"))
    \o Optional(v.message, ZAnyString(v.message, Append(path, "message")))
    \o Optional(v.stack, ZAnyString(v.stack, Append(path, "stack")))
    \o Optional(v.snippet, ZAnyString(v.snippet, Append(path, "snippet")))
    \o Optional(v.value, ZAnyString(v.value, Append(path, "value")))

SuiteType(v, path) ==
  ZOneOf(v, path, {Str("file"), Str("anonymous suite"), Str("suite")})

TestStep(v, path) ==
  ZAnyString(v.title, Append(path, "title"))
    \o DurationMS(v.duration, Append(path, "duration"))
    \o ZOptionalObject("Location", v.location, Append(path, "location"))
    \o Optional(v.snippet, ZAnyString(v.snippet, Append(path, "snippet")))
    \o ZOptionalObject("ReportError", v.error, Append(path, "error"))
    \o ZOptionalArray("TestStep", v.steps, Append(path, "steps"))

Attachment(v, path) ==
  ZAnyString(v.name, Append(path, "name"))
    \o ZAnyString(v.contentType, Append(path, "contentType"))
    \o AttachmentId(v.id, Append(path, "id"))

Annotation(v, path) ==
  ZAnyString(v.type, Append(path, "type"))
    \o Optional(v.description, ZAnyString(v.description, Append(path, "description")))
    \o ZOptionalObject("Location", v.location, Append(path, "location"))

RunAttempt(v, path) ==
  ZNumberMin(v.environmentIdx, Append(path, "environmentIdx"), 0)
    \o TestStatus(v.expectedStatus, Append(path, "expectedStatus"))
    \o TestStatus(v.status, Append(path, "status"))
    \o UnixTimestampMS(v.startTimestamp, Append(path, "startTimestamp"))
    \o DurationMS(v.duration, Append(path, "duration"))
    \o Optional(v.timeout, DurationMS(v.timeout, Append(path, "timeout")))
    \o ZOptionalArray("Annotation", v.annotations, Append(path, "annotations"))
    \o ZOptionalArray("ReportError", v.errors, Append(path, "errors"))
    \o Optional(v.parallelIndex, ZNumber(v.parallelIndex, Append(path, "parallelIndex")))
    \o ZOptionalArray("TestStep", v.steps, Append(path, "steps"))
    \o ZOptionalArray("STDIOEntry", v.stdout, Append(path, "stdout"))
    \o ZOptionalArray("STDIOEntry", v.stderr, Append(path, "stderr"))
    \o ZOptionalArray("Attachment", v.attachments, Append(path, "attachments"))

Test(v, path) ==
  ZAnyString(v.title, Append(path, "title"))
    \o ZOptionalObject("Location", v.location, Append(path, "location"))
    \o ZOptionalArray("string", v.tags, Append(path, "tags"))
    \o ZArray("RunAttempt", v.attempts, Append(path, "attempts"))

Suite(v, path) ==
  SuiteType(v.type, Append(path, "type"))
    \o ZAnyString(v.title, Append(path, "title"))
    \o ZOptionalObject("Location", v.location, Append(path, "location"))
    \o ZOptionalArray("Suite", v.suites, Append(path, "suites"))
    \o ZOptionalArray("Test", v.tests, Append(path, "tests"))

SystemUtilizationSample(v, path) ==
  DurationMS(v.dts, Append(path, "dts"))
    \o ZNumberRange(v.cpuUtilization, Append(path, "cpuUtilization"), 0, 100)
    \o ZNumberRange(v.memoryUtilization, Append(path, "memoryUtilization"), 0, 100)

SystemUtilization(v, path) ==
  ZNumberMin(v.totalMemoryBytes, Append(path, "totalMemoryBytes"), 0)
    \o UnixTimestampMS(v.startTimestamp, Append(path, "startTimestamp"))
    \o ZArray("SystemUtilizationSample", v.samples, Append(path, "samples"))

\* UtilizationTelemetry whose value has the lower bound only.
UtilizationTelemetry_NoMax(v, path) ==
  IF v.t # "array" THEN <<Issue(path, "invalid_type")>>
  ELSE IF Len(v.a) > 2 THEN <<Issue(path, "too_big")>>
  ELSE IF Len(v.a) < 2 THEN <<Issue(path, "too_small")>>
  ELSE DurationMS(v.a[1], Append(path, "0"))
         \o ZNumberMin(v.a[2], Append(path, "1"), 0)

\* z.tuple([DurationMS, z.number().min(0).max(100)]): a tuple of the wrong
\* length is reported as such and its items are not looked at.
UtilizationTelemetry(v, path) ==
  IF v.t # "array" THEN <<Issue(path, "invalid_type")>>
  ELSE IF Len(v.a) > 2 THEN <<Issue(path, "too_big")>>
  ELSE IF Len(v.a) < 2 THEN <<Issue(path, "too_small")>>
  ELSE DurationMS(v.a[1], Append(path, "0"))
         \o ZNumberRange(v.a[2], Append(path, "1"), 0, 100)

Report(v, path) ==
  ZString(v.category, Append(path, "category"), 1, 100)
    \o ZOneOf(v.version, Append(path, "version"), {Num(1)})
    \o CommitId(v.commitId, Append(path, "commitId"))
    \o ZOptionalArray("CommitId", v.relatedCommitIds, Append(path, "relatedCommitIds"))
    \o Optional(v.configPath, GitFilePath(v.configPath, Append(path, "configPath")))
    \o Optional(v.url, ZAnyString(v.url, Append(path, "url")))
    \o ZArray("Environment", v.environments, Append(path, "environments"))
    \o ZArray("Suite", v.suites, Append(path, "suites"))
    \o ZOptionalArray("Test", v.tests, Append(path, "tests"))
    \o ZOptionalArray("ReportError", v.unattributedErrors, Append(path, "unattributedErrors"))
    \o UnixTimestampMS(v.startTimestamp, Append(path, "startTimestamp"))
    \o DurationMS(v.duration, Append(path, "duration"))
    \o ZOptionalObject("SystemUtilization", v.systemUtilization, Append(path, "systemUtilization"))
    \o Optional(v.cpuCount, ZNumberMin(v.cpuCount, Append(path, "cpuCount"), 0))
    \o ZOptionalArray("UtilizationTelemetry", v.cpuAvg, Append(path, "cpuAvg"))
    \o ZOptionalArray("UtilizationTelemetry", v.cpuMax, Append(path, "cpuMax"))
    \o ZOptionalArray("UtilizationTelemetry", v.ram, Append(path, "ram"))
    \o Optional(v.ramBytes, ZNumberMin(v.ramBytes, Append(path, "ramBytes"), 0))

-----------------------------------------------------------------------------
(* namespace schema, schema.ts: the schema used by FlakinessReport.validate.*)
(* Its Location, ReportError, TestStep, Attachment, Annotation, STDIOEntry *)
(* and SystemUtilization schemas read as the ones of namespace Schema.     *)

\* userSuppliedData and opaqueData are z.any().optional(): nothing is checked.
schema_Environment(v, path) ==
  ZString(v.name, Append(path, "name"), 1, 512)
    \o ZOptionalObject("SystemData", v.systemData, Append(path, "systemData"))

schema_RunAttempt(v, path) ==
  Optional(v.timeout, DurationMS(v.timeout, Append(path, "timeout")))
    \o ZArray("Annotation", v.annotations, Append(path, "annotations"))
    \o TestStatus(v.expectedStatus, Append(path, "expectedStatus"))
    \o ZNumberMin(v.environmentIdx, Append(path, "environmentIdx"), 0)
    \o TestStatus(v.status, Append(path, "status"))
    \o UnixTimestampMS(v.startTimestamp, Append(path, "startTimestamp"))
    \o DurationMS(v.duration, Append(path, "duration"))
    \o ZOptionalArray("ReportError", v.errors, Append(path, "errors"))
    \o Optional(v.parallelIndex, ZNumber(v.parallelIndex, Append(path, "parallelIndex")))
    \o ZOptionalArray("TestStep", v.steps, Append(path, "steps"))
    \o ZOptionalArray("STDIOEntry", v.stdout, Append(path, "stdout"))
    \o ZOptionalArray("STDIOEntry", v.stderr, Append(path, "stderr"))
    \o ZOptionalArray("Attachment", v.attachments, Append(path, "attachments"))

schema_Test(v, path) ==
  ZAnyString(v.title, Append(path, "title"))
    \o ZObject("Location", v.location, Append(path, "location"))
    \o ZOptionalArray("string", v.tags, Append(path, "tags"))
    \o ZArray("schema_RunAttempt", v.attempts, Append(path, "attempts"))

schema_Suite(v, path) ==
  SuiteType(v.type, Append(path, "type"))
    \o ZAnyString(v.title, Append(path, "title"))
    \o ZObject("Location", v.location, Append(path, "location"))
    \o ZOptionalArray("schema_Suite", v.suites, Append(path, "suites"))
    \o ZOptionalArray("schema_Test", v.tests, Append(path, "tests"))

\* opaqueData is z.any().optional(); keys the schema does not name (version,
\* tests, the telemetry series) are not looked at.
schema_Report(v, path) ==
  ZString(v.category, Append(path, "category"), 1, 100)
    \o CommitId(v.commitId, Append(path, "commitId"))
    \o ZOptionalArray("CommitId", v.relatedCommitIds, Append(path, "relatedCommitIds"))
    \o Optional(v.configPath, GitFilePath(v.configPath, Append(path, "configPath")))
    \o Optional(v.url, ZAnyString(v.url, Append(path, "url")))
    \o ZArray("schema_Environment", v.environments, Append(path, "environments"))
    \o ZArray("schema_Suite", v.suites, Append(path, "suites"))
    \o ZArray("ReportError", v.unattributedErrors, Append(path, "unattributedErrors"))
    \o UnixTimestampMS(v.startTimestamp, Append(path, "startTimestamp"))
    \o DurationMS(v.duration, Append(path, "duration"))
    \o ZOptionalObject("SystemUtilization", v.systemUtilization, Append(path, "systemUtilization"))

\* The schema a z.array / .optional() is built from, by its name.
Parse(schema, v, path) ==
  CASE schema = "string" -> ZAnyString(v, path)
    [] schema = "CommitId" -> CommitId(v, path)
    [] schema = "Location" -> Location(v, path)
    [] schema = "SystemData" -> SystemData(v, path)
    [] schema = "Environment" -> Environment(v, path)
    [] schema = "STDIOEntry" -> STDIOEntry(v, path)
    [] schema = "ReportError" -> ReportError(v, path)
    [] schema = "TestStep" -> TestStep(v, path)
    [] schema = "Attachment" -> Attachment(v, path)
    [] schema = "Annotation" -> Annotation(v, path)
    [] schema = "RunAttempt" -> RunAttempt(v, path)
    [] schema = "Test" -> Test(v, path)
    [] schema = "Suite" -> Suite(v, path)
    [] schema = "SystemUtilizationSample" -> SystemUtilizationSample(v, path)
    [] schema = "SystemUtilization" -> SystemUtilization(v, path)
    [] schema = "UtilizationTelemetry" -> UtilizationTelemetry(v, path)
    [] schema = "schema_Environment" -> schema_Environment(v, path)
    [] schema = "schema_RunAttempt" -> schema_RunAttempt(v, path)
    [] schema = "schema_Test" -> schema_Test(v, path)
    [] schema = "schema_Suite" -> schema_Suite(v, path)

-----------------------------------------------------------------------------
(* The validators.  The string they return is modelled by its lines: one   *)
(* per listed issue (its message and its `at <path>` line) and, in         *)
(* V1.validate, the trailing `... and N more issues ...` line.             *)

IssueLine(iss) == [kind |-> "issue", path |-> iss.path, code |-> iss.code, n |-> 0, noun |-> ""]

MoreLine(remaining) ==
  [kind |-> "more", path |-> <<>>, code |-> "", n |-> remaining,
   noun |-> IF remaining = 1 THEN "issue" ELSE "issues"]

RECURSIVE ByPathLength(_, _)
\* The issues ordered by the length of their path from k upwards, issues of
\* equal path length in their given order.
ByPathLength(issues, k) ==
  IF issues = <<>> THEN <<>>
  ELSE LET AtK(iss) == Len(iss.path) = k
           Deeper(iss) == Len(iss.path) # k
       IN  SelectSeq(issues, AtK) \o ByPathLength(SelectSeq(issues, Deeper), k + 1)

\* z.prettifyError(error): zod lists the issues by increasing path length
\* (a stable sort) and prints each as its message followed by its path.
PrettifyError(issues) ==
  LET sorted == ByPathLength(issues, 0)
  IN  [k \in 1..Len(sorted) |-> IssueLine(sorted[k])]

ReturnsUndefined == [t |-> "undefined", lines |-> <<>>]
ReturnsString(lines) == [t |-> "string", lines |-> lines]
MAX_ISSUES == 5

\* V1_validate taking a document for valid when it has no more issues than
\* can be shown.
V1_validate_CapAsSuccess(r) ==
  LET allIssues == Report(r, <<>>)
  IN  IF Len(allIssues) > MAX_ISSUES
        THEN LET shownIssues == SubSeq(allIssues, 1, MAX_ISSUES)
                 remaining == Len(allIssues) - Len(shownIssues)
             IN  ReturnsString(PrettifyError(shownIssues) \o <<MoreLine(remaining)>>)
        ELSE ReturnsUndefined

\* V1_validate counting the remaining issues from the cap instead of from
\* the issues shown.
V1_validate_WrongRemaining(r) ==
  LET allIssues == Report(r, <<>>)
  IN  IF allIssues # <<>>
        THEN LET shownIssues == SubSeq(allIssues, 1,
                                       IF Len(allIssues) < MAX_ISSUES THEN Len(allIssues) ELSE MAX_ISSUES)
                 remaining == Len(allIssues) - MAX_ISSUES + 1
                 base == PrettifyError(shownIssues)
                           \o (IF remaining > 0 THEN <<MoreLine(remaining)>> ELSE <<>>)
             IN  ReturnsString(base)
        ELSE ReturnsUndefined

\* V1.validate, v1/reportV1.ts lines 510-525.
V1_validate(r) ==
  LET allIssues == Report(r, <<>>)
  IN  IF allIssues # <<>>
        THEN LET shownIssues == SubSeq(allIssues, 1,
                                       IF Len(allIssues) < MAX_ISSUES THEN Len(allIssues) ELSE MAX_ISSUES)
                 remaining == Len(allIssues) - Len(shownIssues)
                 base == PrettifyError(shownIssues)
                           \o (IF remaining > 0 THEN <<MoreLine(remaining)>> ELSE <<>>)
             IN  ReturnsString(base)
        ELSE ReturnsUndefined

\* FlakinessReport.validate, flakinessReport.ts lines 320-325.
FlakinessReport_validate(r) ==
  LET issues == schema_Report(r, <<>>)
  IN  IF issues # <<>>
        THEN ReturnsString(PrettifyError(issues))
        ELSE ReturnsUndefined

-----------------------------------------------------------------------------
(* The documents the validators are run on: the report of the README's     *)
(* minimal example, in the form                                            *)
(*   {category, commitId, environments:[{name}], suites:[],                *)
(*    tests:[{title, attempts:[{environmentIdx, expectedStatus, status,    *)
(*    startTimestamp, duration}]}], startTimestamp, duration},             *)
(* and its variations in single keys.  Timestamps are written in seconds   *)
(* (1703001600 for 1703001600000): the schemas only compare them with 0.   *)

Obj(o) == [t |-> "object", o |-> o]

NoLocation == [t |-> "absent", o |-> [file |-> Missing, line |-> Missing, column |-> Missing]]

NoSystemData == [t |-> "absent", o |-> [osName |-> Missing, osVersion |-> Missing, osArch |-> Missing]]

NoSystemUtilization ==
  [t |-> "absent", o |-> [totalMemoryBytes |-> Missing, startTimestamp |-> Missing, samples |-> Absent]]

EnvironmentObj(name) ==
  [name |-> name, systemData |-> NoSystemData, metadata |-> Missing,
   userSuppliedData |-> Missing, opaqueData |-> Missing]

RunAttemptObj(status) ==
  [environmentIdx |-> Num(0), expectedStatus |-> Str("passed"), status |-> status,
   startTimestamp |-> Num(1703001600), duration |-> Num(1500),
   timeout |-> Missing, annotations |-> Absent, errors |-> Absent,
   parallelIndex |-> Missing, steps |-> Absent, stdout |-> Absent,
   stderr |-> Absent, attachments |-> Absent]

TestWith(attempts) ==
  [title |-> Str("t"), location |-> NoLocation, tags |-> Absent, attempts |-> Arr(attempts)]

SuiteObj(type, suites, tests) ==
  [type |-> type, title |-> Str("s"), location |-> NoLocation, suites |-> suites, tests |-> tests]

\* A file suite holding a test and one child suite of the given type.
NestedSuite(childType) ==
  SuiteObj(Str("file"),
           Arr(<<SuiteObj(childType, Absent, Absent)>>),
           Arr(<<TestWith(<<RunAttemptObj(Str("passed"))>>)>>))

Commit40 == Str("a1b2c3d4e5f6789012345678901234567890abcd")
Commit39 == Str("a1b2c3d4e5f6789012345678901234567890abc")

AcceptanceDoc ==
  [category |-> Str("pytest"),
   version |-> Missing,
   commitId |-> Commit40,
   relatedCommitIds |-> Absent,
   configPath |-> Missing,
   url |-> Missing,
   environments |-> Arr(<<EnvironmentObj(Str("Python Tests"))>>),
   suites |-> Arr(<<>>),
   tests |-> Arr(<<TestWith(<<RunAttemptObj(Str("passed"))>>)>>),
   unattributedErrors |-> Absent,
   startTimestamp |-> Num(1703001600),
   duration |-> Num(2000),
   systemUtilization |-> NoSystemUtilization,
   cpuCount |-> Missing,
   cpuAvg |-> Absent,
   cpuMax |-> Absent,
   ram |-> Absent,
   ramBytes |-> Missing,
   opaqueData |-> Missing]

Documents ==
  [category : {Str("pytest"), Str(""), Missing},
   version : {Missing, Num(1), Num(2)},
   commitId : {Commit40, Commit39},
   relatedCommitIds : {Absent, Arr(<<Commit39>>)},
   configPath : {Missing},
   url : {Missing, Num(7)},
   environments : {Arr(<<EnvironmentObj(Str("Python Tests"))>>),
                   Arr(<<EnvironmentObj(Str(""))>>), Absent},
   suites : {Arr(<<>>), Absent, Arr(<<NestedSuite(Str("suite"))>>), Arr(<<NestedSuite(Str("folder"))>>)},
   tests : {Arr(<<TestWith(<<RunAttemptObj(Str("passed"))>>)>>),
            Arr(<<TestWith(<<RunAttemptObj(Str("bogus"))>>)>>), Absent},
   unattributedErrors : {Absent, Arr(<<>>)},
   startTimestamp : {Num(1703001600), Num(-1)},
   duration : {Num(2000), Num(-1), Missing},
   systemUtilization : {NoSystemUtilization},
   cpuCount : {Missing},
   cpuAvg : {Absent},
   cpuMax : {Absent},
   ram : {Absent},
   ramBytes : {Missing},
   opaqueData : {Missing}]

-----------------------------------------------------------------------------
(* The validation scenario: one document, on which V1.validate and         *)
(* FlakinessReport.validate are each called once.                          *)

CallV1Validate ==
  /\ v1Result = NotCalled
  /\ v1Result' = V1_validate(doc)
  /\ UNCHANGED <<tvars, mvars, doc, legacyResult>>

CallFlakinessReportValidate ==
  /\ legacyResult = NotCalled
  /\ legacyResult' = FlakinessReport_validate(doc)
  /\ UNCHANGED <<tvars, mvars, doc, v1Result>>

InitValidate ==
  /\ NoMigration
  /\ doc \in Documents
  /\ v1Result = NotCalled
  /\ legacyResult = NotCalled
  /\ report = [suites |-> <<>>, tests |-> Absent]
  /\ running = "none"
  /\ rootIdx = 1
  /\ stack = <<>>
  /\ parents = <<>>
  /\ calls = [f \in Functions |-> <<>>]
  /\ outcome = [f \in Functions |-> "none"]
  /\ found = NoValue

NextValidate == CallV1Validate \/ CallFlakinessReportValidate

SpecValidate == InitValidate /\ [][NextValidate]_vars

-----------------------------------------------------------------------------
(* A report that uses the nested parts of the format (a suite with a       *)
(* located test, an attempt with a timeout, a step and an attachment,      *)
(* telemetry series) and that both schemas accept, and the documents got   *)
(* from it by varying string lengths (SpecLengths).                        *)

RECURSIVE StringOfLength(_)
\* A string of n characters.
StringOfLength(n) ==
  IF n = 0 THEN ""
  ELSE IF n % 2 = 1 THEN "a" \o StringOfLength(n - 1)
  ELSE LET half == StringOfLength(n \div 2) IN half \o half

LocationObj == Obj([file |-> Str("tests/test_example.py"), line |-> Num(3), column |-> Num(1)])

NoReportError ==
  [t |-> "absent",
   o |-> [location |-> NoLocation, message |-> Missing, stack |-> Missing,
          snippet |-> Missing, value |-> Missing]]

TestStepObj(duration) ==
  [title |-> Str("step"), duration |-> duration, location |-> NoLocation,
   snippet |-> Missing, error |-> NoReportError, steps |-> Absent]

AttachmentObj(id) == [name |-> Str("screenshot.png"), contentType |-> Str("image/png"), id |-> id]

\* An attempt with every numeric field given.
FullAttempt ==
  [environmentIdx |-> Num(0), expectedStatus |-> Str("passed"), status |-> Str("passed"),
   startTimestamp |-> Num(1703001600), duration |-> Num(1500),
   timeout |-> Num(30000), annotations |-> Arr(<<>>), errors |-> Absent,
   parallelIndex |-> Num(0), steps |-> Arr(<<TestStepObj(Num(10))>>),
   stdout |-> Absent, stderr |-> Absent,
   attachments |-> Arr(<<AttachmentObj(Str("5d41402abc4b2a76b9719d911017c592"))>>)]

LocatedTest(attempt) ==
  [title |-> Str("t"), location |-> LocationObj, tags |-> Absent, attempts |-> Arr(<<attempt>>)]

FileSuite(attempt) ==
  [type |-> Str("file"), title |-> Str("s"), location |-> LocationObj,
   suites |-> Absent, tests |-> Arr(<<LocatedTest(attempt)>>)]

SystemUtilizationObj(dts, cpu, mem) ==
  Obj([totalMemoryBytes |-> Num(1024), startTimestamp |-> Num(1703001600),
       samples |-> Arr(<<[dts |-> dts, cpuUtilization |-> cpu, memoryUtilization |-> mem]>>)])

\* One telemetry sample: the pair [time field, value].
Sample(time, value) == Arr(<<time, value>>)

FullDoc ==
  [category |-> Str("pytest"),
   version |-> Num(1),
   commitId |-> Commit40,
   relatedCommitIds |-> Absent,
   configPath |-> Missing,
   url |-> Missing,
   environments |-> Arr(<<EnvironmentObj(Str("Python Tests"))>>),
   suites |-> Arr(<<FileSuite(FullAttempt)>>),
   tests |-> Absent,
   unattributedErrors |-> Arr(<<>>),
   startTimestamp |-> Num(1703001600),
   duration |-> Num(2000),
   systemUtilization |-> SystemUtilizationObj(Num(100), Num(50), Num(50)),
   cpuCount |-> Missing,
   cpuAvg |-> Arr(<<Sample(Num(1703001600), Num(50))>>),
   cpuMax |-> Absent,
   ram |-> Absent,
   ramBytes |-> Missing,
   opaqueData |-> Missing]

CommitLengths == {39, 40, 41}
RelatedCommitLengths == {<<>>, <<40>>, <<39>>, <<40, 41>>}
CategoryLengths == {0, 1, 100, 101}
NameLengths == {0, 1, 512, 513}
AttachmentIdLengths == {0, 1, 1024, 1025}

LengthDoc(commit, related, category, name, attachmentId) ==
  [FullDoc EXCEPT
     !.commitId = Str(StringOfLength(commit)),
     !.relatedCommitIds = Arr([k \in DOMAIN related |-> Str(StringOfLength(related[k]))]),
     !.category = Str(StringOfLength(category)),
     !.environments = Arr(<<EnvironmentObj(Str(StringOfLength(name)))>>),
     !.suites = Arr(<<FileSuite([FullAttempt EXCEPT
                        !.attachments = Arr(<<AttachmentObj(Str(StringOfLength(attachmentId)))>>)])>>)]

LengthDocuments ==
  { LengthDoc(c, r, g, n, a) :
      c \in CommitLengths, r \in RelatedCommitLengths, g \in CategoryLengths,
      n \in NameLengths, a \in AttachmentIdLengths }

\* The start of a scenario in which the validators are run on one of `docs`.
InitValidateOn(docs) ==
  /\ NoMigration
  /\ doc \in docs
  /\ v1Result = NotCalled
  /\ legacyResult = NotCalled
  /\ report = [suites |-> <<>>, tests |-> Absent]
  /\ running = "none"
  /\ rootIdx = 1
  /\ stack = <<>>
  /\ parents = <<>>
  /\ calls = [f \in Functions |-> <<>>]
  /\ outcome = [f \in Functions |-> "none"]
  /\ found = NoValue

InitLengths == InitValidateOn(LengthDocuments)

SpecLengths == InitLengths /\ [][NextValidate]_vars

-----------------------------------------------------------------------------
(* The documents got from FullDoc by varying its numbers (SpecNumbers):    *)
(* every timestamp and duration, the attempt's environmentIdx and          *)
(* parallelIndex, and the environmentIdx of an attempt of a root test.     *)

SignChoices == {Num(-1), Num(0)}

NumberChoices ==
  [reportStart : SignChoices, reportDuration : SignChoices,
   attemptStart : SignChoices, attemptDuration : SignChoices,
   timeout : SignChoices, stepDuration : SignChoices, telemetryTime : SignChoices,
   environmentIdx : {Num(-1), Num(0), Num(1), Half(0)},
   parallelIndex : {Missing, Num(-1), Num(0)},
   rootEnvironmentIdx : {Missing, Num(0), Num(1)}]

NumberAttempt(c) ==
  [FullAttempt EXCEPT
     !.environmentIdx = c.environmentIdx,
     !.startTimestamp = c.attemptStart,
     !.duration = c.attemptDuration,
     !.timeout = c.timeout,
     !.parallelIndex = c.parallelIndex,
     !.steps = Arr(<<TestStepObj(c.stepDuration)>>)]

\* rootEnvironmentIdx = Missing stands for a document without root tests.
NumberDoc(c) ==
  [FullDoc EXCEPT
     !.startTimestamp = c.reportStart,
     !.duration = c.reportDuration,
     !.suites = Arr(<<FileSuite(NumberAttempt(c))>>),
     !.tests = IF c.rootEnvironmentIdx = Missing THEN Absent
               ELSE Arr(<<LocatedTest([FullAttempt EXCEPT
                                         !.environmentIdx = c.rootEnvironmentIdx])>>),
     !.cpuAvg = Arr(<<Sample(c.telemetryTime, Num(50))>>)]

NumberDocuments == { NumberDoc(c) : c \in NumberChoices }

InitNumbers == InitValidateOn(NumberDocuments)

SpecNumbers == InitNumbers /\ [][NextValidate]_vars

-----------------------------------------------------------------------------
(* The documents got from FullDoc by varying its percent values            *)
(* (SpecPercent): the value of a cpuAvg, cpuMax and ram sample and the     *)
(* cpuUtilization and memoryUtilization of a systemUtilization sample.     *)

PercentValues == {Num(-1), Num(0), Half(0), Num(100), Half(100), Num(101)}

PercentChoices ==
  [cpuAvg : PercentValues, cpuMax : PercentValues, ram : PercentValues,
   cpuUtilization : PercentValues, memoryUtilization : PercentValues]

PercentDoc(c) ==
  [FullDoc EXCEPT
     !.cpuAvg = Arr(<<Sample(Num(0), c.cpuAvg)>>),
     !.cpuMax = Arr(<<Sample(Num(0), c.cpuMax)>>),
     !.ram = Arr(<<Sample(Num(0), c.ram)>>),
     !.systemUtilization =
        SystemUtilizationObj(Num(100), c.cpuUtilization, c.memoryUtilization)]

PercentDocuments == { PercentDoc(c) : c \in PercentChoices }

InitPercent == InitValidateOn(PercentDocuments)

SpecPercent == InitPercent /\ [][NextValidate]_vars

-----------------------------------------------------------------------------
(* The documents got from FullDoc by giving its attempt one stdout and one *)
(* stderr entry, each with or without a text and a buffer key, holding a   *)
(* string or a number (SpecStdio).                                         *)

StdioEntries ==
  [text : {Missing, Str("hello"), Num(1)},
   buffer : {Missing, Str("aGVsbG8="), Num(1)}]

StdioDoc(out, err) ==
  [FullDoc EXCEPT
     !.suites = Arr(<<FileSuite([FullAttempt EXCEPT !.stdout = Arr(<<out>>),
                                                     !.stderr = Arr(<<err>>)])>>)]

StdioDocuments == { StdioDoc(out, err) : out \in StdioEntries, err \in StdioEntries }

InitStdio == InitValidateOn(StdioDocuments)

SpecStdio == InitStdio /\ [][NextValidate]_vars

-----------------------------------------------------------------------------
(* migrateToV1.  Reports live in a heap and are handed over by reference,  *)
(* so that returning the argument itself, copying it and changing it in    *)
(* place are different things.  A key that is missing has the tag "absent";*)
(* a key that is there with the value undefined has the tag "undefined".   *)
(* The values of userSuppliedData, metadata and opaqueData are any JSON    *)
(* value: they are kept as their text.                                     *)

MaxEnvironments == 2
MaxCalls == 2

Undef == [t |-> "undefined", n |-> 0, s |-> ""]

\* Reading a key of an object: a missing key reads as undefined.
Get(v) == IF v.t = "absent" THEN Undef ELSE v

InputEnvironments ==
  [name : {Str("E"), Str("F")},
   userSuppliedData : {Missing, Str("{foo:bar}")},
   metadata : {Missing, Str("{ci:true}")},
   opaqueData : {Missing, Str("{k:v}")}]

EnvironmentLists == UNION { [1..k -> InputEnvironments] : k \in 0..MaxEnvironments }

\* The reports handed to migrateToV1: without a version, or tagged 1 or 2.
MigrationInputs ==
  [version : {Missing, Num(1), Num(2)},
   category : {Str("pytest")},
   suites : {Arr(<<FileSuite(FullAttempt)>>)},
   startTimestamp : {Num(1703001600)},
   duration : {Num(2000)},
   systemUtilization : {SystemUtilizationObj(Num(100), Num(50), Num(50))},
   cpuAvg : {Arr(<<Sample(Num(1703001600), Num(50)), Sample(Num(1000), Num(60))>>)},
   opaqueData : {Missing, Str("{k:v}")},
   environments : {Arr(e) : e \in EnvironmentLists}]

\* migrateToV1(arg), where arg is the caller's report or what the last call
\* returned.
CallMigrateToV1 ==
  /\ position = 0
  /\ Len(returned) < MaxCalls
  /\ \E arg \in {1} \cup {returned[k] : k \in DOMAIN returned} :
       /\ input' = arg
       /\ given' = Append(given, [ref |-> arg, value |-> heap[arg]])
  /\ position' = 546
  /\ UNCHANGED <<heap, env, returned>>
  /\ UNCHANGED <<tvars, vvars, latest>>

\* The version test dropped: every report is migrated.
MigrateToV1_Version_Dropped ==
  /\ position = 546
  /\ position' = 548
  /\ UNCHANGED <<heap, input, env, given, returned>>
  /\ UNCHANGED <<tvars, vvars, latest>>

\* lines 546-547: if (input.version === 1) return input;
MigrateToV1_Version ==
  /\ position = 546
  /\ IF heap[input].version = Num(1)
       THEN /\ returned' = Append(returned, input)
            /\ position' = 0
            /\ input' = 0
       ELSE /\ position' = 548
            /\ UNCHANGED <<input, returned>>
  /\ UNCHANGED <<heap, env, given>>
  /\ UNCHANGED <<tvars, vvars, latest>>

\* Line 548 without the copy: the function goes on with the caller's object.
MigrateToV1_Clone_Shared ==
  /\ position = 548
  /\ position' = 550
  /\ UNCHANGED <<heap, input, env, given, returned>>
  /\ UNCHANGED <<tvars, vvars, latest>>

\* line 548: input = structuredClone(input);
MigrateToV1_Clone ==
  /\ position = 548
  /\ heap' = Append(heap, heap[input])
  /\ input' = Len(heap) + 1
  /\ position' = 550
  /\ UNCHANGED <<env, given, returned>>
  /\ UNCHANGED <<tvars, vvars, latest>>

\* line 550: delete input.opaqueData;
MigrateToV1_DeleteOpaqueData ==
  /\ position = 550
  /\ heap' = [heap EXCEPT ![input].opaqueData = Missing]
  /\ position' = 551
  /\ env' = 1
  /\ UNCHANGED <<input, given, returned>>
  /\ UNCHANGED <<tvars, vvars, latest>>

\* Lines 551-552 without the loop: the environments are left as they are.
MigrateToV1_DeleteEnvOpaqueData_Skipped ==
  /\ position = 551
  /\ position' = 554
  /\ env' = 0
  /\ UNCHANGED <<heap, input, given, returned>>
  /\ UNCHANGED <<tvars, vvars, latest>>

\* lines 551-552: for (const env of input.environments) delete env.opaqueData;
MigrateToV1_DeleteEnvOpaqueData ==
  /\ position = 551
  /\ IF env <= Len(heap[input].environments.a)
       THEN /\ heap' = [heap EXCEPT ![input].environments.a[env].opaqueData = Missing]
            /\ env' = env + 1
            /\ UNCHANGED position
       ELSE /\ position' = 554
            /\ env' = 0
            /\ UNCHANGED heap
  /\ UNCHANGED <<input, given, returned>>
  /\ UNCHANGED <<tvars, vvars, latest>>

\* Lines 554-562 without `version: 1`.
MigrateToV1_Return_NoVersion ==
  /\ position = 554
  /\ heap' = Append(heap,
       [heap[input] EXCEPT
          !.environments =
             Arr([k \in DOMAIN heap[input].environments.a |->
                    [heap[input].environments.a[k] EXCEPT
                       !.userSuppliedData = Undef,
                       !.metadata = Get(heap[input].environments.a[k].userSuppliedData)]])])
  /\ returned' = Append(returned, Len(heap) + 1)
  /\ position' = 0
  /\ input' = 0
  /\ UNCHANGED <<env, given>>
  /\ UNCHANGED <<tvars, vvars, latest>>

\* Lines 554-562 with `version: 1` written before the spread instead of after
\* it, so that a version key of the input wins.
MigrateToV1_Return_VersionFirst ==
  /\ position = 554
  /\ heap' = Append(heap,
       [heap[input] EXCEPT
          !.environments =
             Arr([k \in DOMAIN heap[input].environments.a |->
                    [heap[input].environments.a[k] EXCEPT
                       !.userSuppliedData = Undef,
                       !.metadata = Get(heap[input].environments.a[k].userSuppliedData)]]),
          !.version = IF heap[input].version = Missing THEN Num(1) ELSE heap[input].version])
  /\ returned' = Append(returned, Len(heap) + 1)
  /\ position' = 0
  /\ input' = 0
  /\ UNCHANGED <<env, given>>
  /\ UNCHANGED <<tvars, vvars, latest>>

\* Lines 554-562 with the environments listed from the last to the first.
MigrateToV1_Return_Reversed ==
  /\ position = 554
  /\ heap' = Append(heap,
       [heap[input] EXCEPT
          !.environments =
             Arr([k \in DOMAIN heap[input].environments.a |->
                    LET e == heap[input].environments.a[Len(heap[input].environments.a) + 1 - k]
                    IN  [e EXCEPT !.userSuppliedData = Undef,
                                  !.metadata = Get(e.userSuppliedData)]]),
          !.version = Num(1)])
  /\ returned' = Append(returned, Len(heap) + 1)
  /\ position' = 0
  /\ input' = 0
  /\ UNCHANGED <<env, given>>
  /\ UNCHANGED <<tvars, vvars, latest>>

\* Lines 554-562 without `metadata: env.userSuppliedData`.
MigrateToV1_Return_NoMetadata ==
  /\ position = 554
  /\ heap' = Append(heap,
       [heap[input] EXCEPT
          !.environments =
             Arr([k \in DOMAIN heap[input].environments.a |->
                    [heap[input].environments.a[k] EXCEPT !.userSuppliedData = Undef]]),
          !.version = Num(1)])
  /\ returned' = Append(returned, Len(heap) + 1)
  /\ position' = 0
  /\ input' = 0
  /\ UNCHANGED <<env, given>>
  /\ UNCHANGED <<tvars, vvars, latest>>

\* lines 554-562: return { ...input, environments: input.environments.map(env =>
\* ({ ...env, userSuppliedData: undefined, metadata: env.userSuppliedData })),
\* version: 1 };  a new object, and a new object for each environment.
MigrateToV1_Return ==
  /\ position = 554
  /\ heap' = Append(heap,
       [heap[input] EXCEPT
          !.environments =
             Arr([k \in DOMAIN heap[input].environments.a |->
                    [heap[input].environments.a[k] EXCEPT
                       !.userSuppliedData = Undef,
                       !.metadata = Get(heap[input].environments.a[k].userSuppliedData)]]),
          !.version = Num(1)])
  /\ returned' = Append(returned, Len(heap) + 1)
  /\ position' = 0
  /\ input' = 0
  /\ UNCHANGED <<env, given>>
  /\ UNCHANGED <<tvars, vvars, latest>>

\* lines 540-543: function migrateToV0(input) { return input; }
MigrateToV0 ==
  /\ position = 0
  /\ latest = NoLatest
  /\ \E arg \in {1} \cup {returned[k] : k \in DOMAIN returned} :
       latest' = [arg |-> arg, result |-> arg]
  /\ UNCHANGED <<heap, position, input, env, given, returned>>
  /\ UNCHANGED <<tvars, vvars>>

\* index.ts line 3: export { migrateToV0 as migrateToLatest }
MigrateToLatest == MigrateToV0

\* The migration scenario: one report in memory, on which migrateToV1 is
\* called, and then called again on that report or on what came back, and on
\* which migrateToLatest is called once.
InitMigrate ==
  /\ latest = NoLatest
  /\ heap \in { <<d>> : d \in MigrationInputs }
  /\ position = 0
  /\ input = 0
  /\ env = 0
  /\ given = <<>>
  /\ returned = <<>>
  /\ report = [suites |-> <<>>, tests |-> Absent]
  /\ running = "none"
  /\ rootIdx = 1
  /\ stack = <<>>
  /\ parents = <<>>
  /\ calls = [f \in Functions |-> <<>>]
  /\ outcome = [f \in Functions |-> "none"]
  /\ found = NoValue
  /\ doc = NoDocument
  /\ v1Result = NotCalled
  /\ legacyResult = NotCalled

NextMigrate ==
  \/ CallMigrateToV1
  \/ MigrateToV1_Version
  \/ MigrateToV1_Clone
  \/ MigrateToV1_DeleteOpaqueData
  \/ MigrateToV1_DeleteEnvOpaqueData
  \/ MigrateToV1_Return
  \/ MigrateToLatest

SpecMigrate == InitMigrate /\ [][NextMigrate]_vars

-----------------------------------------------------------------------------
(* Properties of the traversal functions.                                  *)

TestsOf(cs) == [k \in 1..Len(cs) |-> cs[k].test]

IsPrefix(a, b) == Len(a) <= Len(b) /\ a = SubSeq(b, 1, Len(a))

RECURSIVE PreOrder(_, _, _)
\* Pre-order listing of the tests below the suites arr[k], arr[k+1], ... whose
\* common parent has path `prefix`: a suite's own tests, then its child suites.
PreOrder(arr, prefix, k) ==
  IF k > Len(arr) THEN <<>>
  ELSE LET path == Append(prefix, k)
           own == OrEmpty(arr[k].tests)
       IN  [i \in 1..Len(own) |-> TestRef(path, i)]
             \o PreOrder(OrEmpty(arr[k].suites), path, 1)
             \o PreOrder(arr, prefix, k + 1)

\* The suites from the root suite down to and including the suite at `path`.
Chain(path) == [k \in 1..Len(path) |-> SuiteRef(SubSeq(path, 1, k))]

NoRepeats(seq) == \A i, j \in 1..Len(seq) : seq[i] = seq[j] => i = j

\* C1: visitTests calls the visitor exactly once per test reachable through
\* report.suites, in pre-order (own tests in array order, then child suites in
\* array order, root suites in array order): the calls made so far are always
\* an initial part of the pre-order listing, and on return they are all of it.
C1_VisitTestsPreOrder ==
  /\ IsPrefix(TestsOf(calls["visitTests"]), PreOrder(report.suites, <<>>, 1))
  /\ NoRepeats(TestsOf(calls["visitTests"]))
  /\ outcome["visitTests"] = "returned"
       => TestsOf(calls["visitTests"]) = PreOrder(report.suites, <<>>, 1)

\* A returned visit of two root suites, the first with two tests of its own
\* and a child suite holding a test.
C1_Witness ==
  /\ outcome["visitTests"] = "returned"
  /\ Len(report.suites) = 2
  /\ Len(OrEmpty(report.suites[1].tests)) = 2
  /\ Len(OrEmpty(report.suites[1].suites)) = 1
  /\ Len(calls["visitTests"]) = 4
  /\ calls["visitTests"][3].test = TestRef(<<1, 1>>, 1)
  /\ calls["visitTests"][4].test = TestRef(<<2>>, 1)

\* The forest A{tests:[t1], suites:[B{tests:[t2]}]}.
ForestAB ==
  <<[title |-> "s", tests |-> Arr(<<TestObj>>),
     suites |-> Arr(<<[title |-> "s", tests |-> Arr(<<TestObj>>), suites |-> Absent]>>)]>>

\* C2: every visitTests visitor call is handed the chain of suites from the
\* root suite down to and including the suite that holds the test, root-most
\* first; on the forest A{t1, B{t2}} the calls are t1 with [A], t2 with [A,B].
C2_VisitTestsAncestors ==
  /\ \A k \in DOMAIN calls["visitTests"] :
        calls["visitTests"][k].parents = Chain(calls["visitTests"][k].test.at)
  /\ (report.suites = ForestAB /\ outcome["visitTests"] = "returned")
       => calls["visitTests"] =
            << Call(TestRef(<<1>>, 1), <<SuiteRef(<<1>>)>>, "returned"),
               Call(TestRef(<<1, 1>>, 1), <<SuiteRef(<<1>>), SuiteRef(<<1, 1>>)>>, "returned") >>

\* visitTests has returned on the forest A{t1, B{t2}}.
C2_Witness ==
  /\ report.suites = ForestAB
  /\ outcome["visitTests"] = "returned"
  /\ Len(calls["visitTests"]) = 2

\* C3: the three functions share one order: the tests handed to the callback
\* by visitTestsAsync and by findTest (while its predicate has not matched)
\* follow the sequence visitTests produced, and are that whole sequence once
\* visitTestsAsync has resolved, and once findTest has returned undefined.
C3_SameOrder ==
  /\ IsPrefix(TestsOf(calls["visitTestsAsync"]), TestsOf(calls["visitTests"]))
  /\ IsPrefix(TestsOf(calls["findTest"]), TestsOf(calls["visitTests"]))
  /\ outcome["visitTestsAsync"] = "returned"
       => TestsOf(calls["visitTestsAsync"]) = TestsOf(calls["visitTests"])
  /\ (outcome["findTest"] = "returned" /\ found = Undefined)
       => /\ TestsOf(calls["findTest"]) = TestsOf(calls["visitTests"])
          /\ TestsOf(calls["findTest"]) = TestsOf(calls["visitTestsAsync"])

\* All three functions have completed on a report of three suites with tests
\* at two nesting levels, the predicate never matching.
C3_Witness ==
  /\ outcome["findTest"] = "returned"
  /\ found = Undefined
  /\ Len(calls["findTest"]) >= 4
  /\ \E k \in DOMAIN calls["findTest"] : Len(calls["findTest"][k].test.at) = 2
  /\ \E k \in DOMAIN calls["findTest"] : Len(calls["findTest"][k].test.at) = 1

\* C4: findTest short-circuits.  The predicate is never called after a call
\* that returned true; a returned test is the one of that call, which is the
\* first match in traversal order; when findTest returns undefined the
\* predicate has been called exactly once on every test, always answering false.
C4_FindTestShortCircuit ==
  LET cs == calls["findTest"] IN
  /\ \A k \in 1..(Len(cs) - 1) : cs[k].ret = "false"
  /\ IsPrefix(TestsOf(cs), PreOrder(report.suites, <<>>, 1))
  /\ (outcome["findTest"] = "returned" /\ found # Undefined)
       => /\ cs # <<>>
          /\ cs[Len(cs)].ret = "true"
          /\ found = cs[Len(cs)].test
  /\ (outcome["findTest"] = "returned" /\ found = Undefined)
       => /\ TestsOf(cs) = PreOrder(report.suites, <<>>, 1)
          /\ \A k \in DOMAIN cs : cs[k].ret = "false"
  /\ outcome["findTest"] # "returned" => found = NoValue

\* findTest has returned a test of a nested suite after two misses, leaving a
\* later test unvisited.
C4_Witness ==
  /\ outcome["findTest"] = "returned"
  /\ found.kind = "test"
  /\ Len(found.at) = 2
  /\ Len(calls["findTest"]) = 3
  /\ Len(PreOrder(report.suites, <<>>, 1)) > 3

\* The visitor calls of visitTestsAsync whose promise has not settled.
InFlight == {k \in DOMAIN calls["visitTestsAsync"] : calls["visitTestsAsync"][k].ret = "pending"}

\* C5: visitTestsAsync runs its visitors strictly one after the other: when a
\* visitor call starts, the promise of every earlier call has settled, so at
\* most one call is in flight.
C5_AsyncSequential ==
  /\ Cardinality(InFlight) <= 1
  /\ \A k \in InFlight : k = Len(calls["visitTestsAsync"])

\* A visitor call is in flight after two earlier ones have resolved.
C5_Witness ==
  /\ Len(calls["visitTestsAsync"]) = 3
  /\ InFlight = {3}
  /\ calls["visitTestsAsync"][1].ret = "resolved"
  /\ calls["visitTestsAsync"][2].ret = "resolved"

RECURSIVE SuitePaths(_, _)
\* The paths of all suites below the array `arr` whose parent has path `prefix`.
SuitePaths(arr, prefix) ==
  UNION { {Append(prefix, k)} \cup SuitePaths(OrEmpty(arr[k].suites), Append(prefix, k)) :
            k \in 1..Len(arr) }

\* C6: in all three functions the callback only ever receives a Test held by
\* a suite reachable through report.suites: never a Suite, never a root-level
\* test of report.tests, and nothing for a suite without tests.
C6_OnlySuiteTests ==
  \A f \in Functions : \A k \in DOMAIN calls[f] :
    LET node == calls[f][k].test IN
    /\ node.kind = "test"
    /\ node.at \in SuitePaths(report.suites, <<>>)
    /\ node.idx \in 1..Len(OrEmpty(SuiteAt(node.at).tests))

\* All three functions have completed on a report that has a root-level test,
\* a suite with neither tests nor suites, and a suite with a test.
C6_Witness ==
  /\ outcome["findTest"] = "returned"
  /\ found = Undefined
  /\ report.tests # Absent
  /\ \E path \in SuitePaths(report.suites, <<>>) :
        SuiteAt(path).tests = Absent /\ SuiteAt(path).suites = Absent
  /\ \A f \in Functions : Len(calls[f]) >= 1

\* C27: the ancestor list handed over with a test is the same in the three
\* functions: findTest's predicate and visitTestsAsync's visitor get the chain
\* of suites down to and including the suite that holds the test, as
\* visitTests's visitor does.
C27_SameAncestors ==
  \A f \in {"visitTestsAsync", "findTest"} : \A k \in DOMAIN calls[f] :
    /\ calls[f][k].parents = Chain(calls[f][k].test.at)
    /\ \A j \in DOMAIN calls["visitTests"] :
         calls["visitTests"][j].test = calls[f][k].test
           => calls["visitTests"][j].parents = calls[f][k].parents

\* The lines at which visitSuite is entered or is still in its loop over the
\* suite's tests before any push (findTest 271, visitTestsAsync 305-306), or
\* is about to push (visitTests 292).
BeforePush == {271, 292, 305, 306}

\* The lines of `parents.pop()`.
PopLines == {281, 297, 310}

\* What `parents` holds when visitSuite is entered for the suite at `path`.
OnEntry(path) == Chain(Pop(path))

\* `parents` is balanced in the current state.
Balanced ==
  /\ (stack # <<>> /\ Top.pc \in BeforePush) => parents = OnEntry(Top.suite)
  /\ (stack # <<>> /\ Top.pc \in PopLines) => parents = Chain(Top.suite)
  /\ (running # "none" /\ stack = <<>>) => parents = <<>>
  /\ \A f \in Functions : \A k \in DOMAIN calls[f] :
       Len(calls[f][k].parents) <= (Len(calls[f][k].test.at) - 1) + 1

\* C28: the reused ancestor stack stays balanced in the three functions (in
\* findTest as long as no match is returned): when the visit of a suite returns
\* `parents` holds what it held when the visit was entered, at a callback call
\* it is never longer than the nesting depth of the suite plus one, and it is
\* empty when the visit of a root suite has returned.
C28_StackBalanced ==
  [][ /\ Balanced
      /\ Balanced'
      /\ (stack # <<>> /\ Top.pc \in PopLines) => parents' = OnEntry(Top.suite) ]_vars

\* findTest is back in a root suite after the visit of its first child suite
\* returned without a match; the predicate has been called.
C28_Witness ==
  /\ running = "findTest"
  /\ Len(stack) = 1
  /\ Top.pc = 276
  /\ Top.i = 2
  /\ parents = <<SuiteRef(Top.suite)>>
  /\ calls["findTest"] # <<>>
  /\ outcome["visitTestsAsync"] = "returned"

\* What can be said of visitTestsAsync's visitor calls at any moment: every
\* call but the last has resolved (after a rejection no call is started), a
\* resolved promise of visitTestsAsync comes after exactly one resolved call
\* per test of report.suites, and a rejected one after a rejected call.
AsyncCallsInOrder ==
  LET cs == calls["visitTestsAsync"] IN
  /\ \A k \in 1..(Len(cs) - 1) : cs[k].ret = "resolved"
  /\ outcome["visitTestsAsync"] = "returned"
       => /\ Len(cs) = Len(PreOrder(report.suites, <<>>, 1))
          /\ \A k \in DOMAIN cs : cs[k].ret = "resolved"
  /\ outcome["visitTestsAsync"] = "rejected"
       => cs # <<>> /\ cs[Len(cs)].ret = "rejected"

\* C30: visitTestsAsync terminates on every forest.  With every visitor promise
\* settled in the end, the promise it returned is settled in the end; it
\* resolves, after exactly as many visitor calls as report.suites has tests,
\* unless a visitor promise rejected, and after a rejection no further visitor
\* call is started.
C30_AsyncTerminates ==
  /\ []AsyncCallsInOrder
  /\ (running = "visitTestsAsync") ~> (outcome["visitTestsAsync"] \in {"returned", "rejected"})

\* visitTestsAsync has resolved after three visitor calls, on suites at two
\* nesting levels.
C30_Witness ==
  /\ outcome["visitTestsAsync"] = "returned"
  /\ Len(calls["visitTestsAsync"]) = 3
  /\ \E k \in DOMAIN calls["visitTestsAsync"] : Len(calls["visitTestsAsync"][k].test.at) = 2

-----------------------------------------------------------------------------
(* Properties of the validators.                                           *)

Statuses == {"passed", "failed", "timedOut", "skipped", "interrupted"}

IsStringOfLength(v, lo, hi) == v.t = "string" /\ Len(v.s) >= lo /\ Len(v.s) <= hi

RECURSIVE SuitesConform(_, _)
\* Whether every suite of the array `arr`, at any depth, has a known type and,
\* when `needLocation`, a location.
SuitesConform(arr, needLocation) ==
  \A k \in DOMAIN arr :
    /\ arr[k].type.t = "string"
    /\ arr[k].type.s \in {"file", "anonymous suite", "suite"}
    /\ needLocation => arr[k].location.t = "object"
    /\ (arr[k].tests.t = "array" /\ needLocation) => \A j \in DOMAIN arr[k].tests.a :
          /\ arr[k].tests.a[j].location.t = "object"
          /\ \A i \in DOMAIN arr[k].tests.a[j].attempts.a :
                arr[k].tests.a[j].attempts.a[i].annotations.t = "array"
    /\ arr[k].suites.t = "array" => SuitesConform(arr[k].suites.a, needLocation)

\* The rules of the current report format for the keys the documents vary,
\* stated key by key: for each key, whether the document's value obeys them.
KeyConforms(d) ==
  [category |-> IsStringOfLength(d.category, 1, 100),
   version |-> d.version.t = "number" /\ d.version.n = 1,
   commitId |-> IsStringOfLength(d.commitId, 40, 40),
   relatedCommitIds |-> \/ d.relatedCommitIds.t = "absent"
                        \/ /\ d.relatedCommitIds.t = "array"
                           /\ \A k \in DOMAIN d.relatedCommitIds.a :
                                IsStringOfLength(d.relatedCommitIds.a[k], 40, 40),
   url |-> d.url.t \in {"absent", "string"},
   environments |-> /\ d.environments.t = "array"
                    /\ \A k \in DOMAIN d.environments.a :
                         IsStringOfLength(d.environments.a[k].name, 1, 512),
   suites |-> d.suites.t = "array" /\ SuitesConform(d.suites.a, FALSE),
   tests |-> \/ d.tests.t = "absent"
             \/ /\ d.tests.t = "array"
                /\ \A k \in DOMAIN d.tests.a : \A j \in DOMAIN d.tests.a[k].attempts.a :
                     /\ d.tests.a[k].attempts.a[j].status.t = "string"
                     /\ d.tests.a[k].attempts.a[j].status.s \in Statuses,
   startTimestamp |-> d.startTimestamp.t = "number" /\ d.startTimestamp.n >= 0,
   duration |-> d.duration.t = "number" /\ d.duration.n >= 0]

\* The keys of a document that break a rule of the current format.
Violations(d) == {k \in DOMAIN KeyConforms(d) : ~KeyConforms(d)[k]}

\* The same for the format FlakinessReport.validate knows: no version, no
\* root-level tests, unattributedErrors is required, and so are the location
\* of every suite and test and the annotations of every attempt.
LegacyViolations(d) ==
  ((Violations(d) \ {"version", "tests"})
     \cup (IF d.unattributedErrors.t = "array" THEN {} ELSE {"unattributedErrors"})
     \cup (IF d.suites.t = "array" /\ SuitesConform(d.suites.a, TRUE) THEN {} ELSE {"suites"}))

IssueLinesOf(result) ==
  LET IsIssue(line) == line.kind = "issue" IN SelectSeq(result.lines, IsIssue)

MoreLinesOf(result) ==
  LET IsMore(line) == line.kind = "more" IN SelectSeq(result.lines, IsMore)

Range(seq) == {seq[k] : k \in DOMAIN seq}

Min(a, b) == IF a < b THEN a ELSE b

\* C8 (as stated): for a document with N violations V1.validate lists the
\* first min(N,5) collected issues in their collected order, followed by a
\* line announcing N-5 more issues exactly when N > 5.
C8_CappedInCollectedOrder ==
  v1Result # NotCalled =>
    LET all == Report(doc, <<>>)
        N == Cardinality(Violations(doc))
    IN  /\ Len(all) = N
        /\ IssueLinesOf(v1Result) = [k \in 1..Min(N, 5) |-> IssueLine(all[k])]
        /\ MoreLinesOf(v1Result) = IF N > 5 THEN <<MoreLine(N - 5)>> ELSE <<>>

\* C8 (amended): V1.validate collects one issue per violation and lists the
\* first min(N,5) of them, by increasing path length and otherwise in their
\* collected order; its last line announces N-5 more issues exactly when N > 5.
C8_CappedReport ==
  v1Result # NotCalled =>
    LET all == Report(doc, <<>>)
        N == Cardinality(Violations(doc))
        shown == IssueLinesOf(v1Result)
        Pos(line) == CHOOSE k \in 1..N : IssueLine(all[k]) = line
    IN  /\ Len(all) = N
        /\ Len(shown) = Min(N, 5)
        /\ Range(shown) = {IssueLine(all[k]) : k \in 1..Min(N, 5)}
        /\ \A i, j \in DOMAIN shown :
             i < j => \/ Len(shown[i].path) < Len(shown[j].path)
                      \/ /\ Len(shown[i].path) = Len(shown[j].path)
                         /\ Pos(shown[i]) < Pos(shown[j])
        /\ MoreLinesOf(v1Result) = IF N > 5 THEN <<MoreLine(N - 5)>> ELSE <<>>
        /\ N > 5 => v1Result.lines[Len(v1Result.lines)] = MoreLine(N - 5)
        /\ Len(v1Result.lines) = Len(shown) + Len(MoreLinesOf(v1Result))

\* V1.validate has run on a document with 8 violations: 5 issues are listed,
\* followed by the line announcing 3 more issues.
C8_Witness ==
  /\ Cardinality(Violations(doc)) = 8
  /\ v1Result.t = "string"
  /\ Len(IssueLinesOf(v1Result)) = 5
  /\ v1Result.lines[6] = [kind |-> "more", path |-> <<>>, code |-> "", n |-> 3, noun |-> "issues"]

\* C9: the acceptance document validates with zero issues: a validator that
\* has been run on it returned undefined.
C9_AcceptanceDocValidates ==
  doc = AcceptanceDoc
    => /\ v1Result # NotCalled => v1Result = ReturnsUndefined
       /\ legacyResult # NotCalled => legacyResult = ReturnsUndefined

\* C10: for the acceptance document with commitId cut to 39 characters,
\* validate reports exactly one issue, and it is on the commitId path.
C10_TruncatedCommitIdOneIssue ==
  doc = [AcceptanceDoc EXCEPT !.commitId = Commit39]
    => /\ v1Result # NotCalled
            => /\ v1Result.t = "string"
               /\ Len(v1Result.lines) = 1
               /\ v1Result.lines[1].kind = "issue"
               /\ v1Result.lines[1].path = <<"commitId">>
       /\ legacyResult # NotCalled
            => /\ legacyResult.t = "string"
               /\ Len(legacyResult.lines) = 1
               /\ legacyResult.lines[1].kind = "issue"
               /\ legacyResult.lines[1].path = <<"commitId">>

-----------------------------------------------------------------------------
(* Properties of the schemas' bounds.                                      *)

Accepted(result) == result = ReturnsUndefined
Rejected(result) == result.t = "string"

\* The attachment id of the document's suite test.
AttachmentIdOf(d) == d.suites.a[1].tests.a[1].attempts.a[1].attachments.a[1].id

\* C11: with everything else valid, a document is accepted exactly when its
\* commitId and every relatedCommitIds entry have 40 characters, its category
\* has 1 to 100, its environment name 1 to 512 and its attachment id 1 to 1024.
C11_LengthBounds ==
  LET ok == /\ Len(doc.commitId.s) = 40
            /\ \A k \in DOMAIN doc.relatedCommitIds.a : Len(doc.relatedCommitIds.a[k].s) = 40
            /\ Len(doc.category.s) \in 1..100
            /\ Len(doc.environments.a[1].name.s) \in 1..512
            /\ Len(AttachmentIdOf(doc).s) \in 1..1024
  IN  /\ v1Result # NotCalled => (Accepted(v1Result) <=> ok) /\ (Rejected(v1Result) <=> ~ok)
      /\ legacyResult # NotCalled
           => (Accepted(legacyResult) <=> ok) /\ (Rejected(legacyResult) <=> ~ok)

\* Both validators have accepted a document whose strings have the greatest
\* lengths allowed.
C11_Witness ==
  /\ Accepted(v1Result)
  /\ Accepted(legacyResult)
  /\ Len(doc.category.s) = 100
  /\ Len(doc.environments.a[1].name.s) = 512
  /\ Len(AttachmentIdOf(doc).s) = 1024
  /\ Len(doc.relatedCommitIds.a) = 1

\* The attempt of the document's suite test, its step and its telemetry sample.
AttemptOf(d) == d.suites.a[1].tests.a[1].attempts.a[1]
StepOf(d) == AttemptOf(d).steps.a[1]
TelemetryOf(d) == d.cpuAvg.a[1]

\* The timestamps, durations and environmentIdx the legacy schema reads, and
\* those the V1 schema reads (it adds the time field of the telemetry sample).
LegacyNonNegatives(d) ==
  { d.startTimestamp, d.duration, AttemptOf(d).startTimestamp, AttemptOf(d).duration,
    AttemptOf(d).timeout, StepOf(d).duration, AttemptOf(d).environmentIdx }
NonNegatives(d) == LegacyNonNegatives(d) \cup { TelemetryOf(d).a[1] }

\* C12: a document in which a timestamp, a duration (of the report, an attempt,
\* a step, a timeout, the time field of a telemetry sample) or an attempt's
\* environmentIdx is negative is rejected, and 0 is accepted for each of them.
C12_NonNegative ==
  /\ v1Result # NotCalled =>
       /\ (\E x \in NonNegatives(doc) : x.n < 0) => Rejected(v1Result)
       /\ (\A x \in NonNegatives(doc) : x.n >= 0) => Accepted(v1Result)
  /\ legacyResult # NotCalled =>
       /\ (\E x \in LegacyNonNegatives(doc) : x.n < 0) => Rejected(legacyResult)
       /\ (\A x \in LegacyNonNegatives(doc) : x.n >= 0) => Accepted(legacyResult)

\* V1.validate has accepted a document in which each of them is 0.
C12_Witness ==
  /\ Accepted(v1Result)
  /\ Accepted(legacyResult)
  /\ \A x \in NonNegatives(doc) : x = Num(0)

\* C13: a document in which an attempt's parallelIndex is negative is rejected.
C13_NegativeParallelIndexRejected ==
  /\ (v1Result # NotCalled /\ AttemptOf(doc).parallelIndex.n < 0) => Rejected(v1Result)
  /\ (legacyResult # NotCalled /\ AttemptOf(doc).parallelIndex.n < 0) => Rejected(legacyResult)

\* 0 <= v <= 100, for an integer or a half.
IsPercent(v) == v.n >= 0 /\ (v.n < 100 \/ v = Num(100))

\* The percent values the legacy schema reads (the legacy systemUtilization
\* sample) and those the V1 schema reads (it adds the telemetry samples).
LegacyPercents(d) ==
  { d.systemUtilization.o.samples.a[1].cpuUtilization,
    d.systemUtilization.o.samples.a[1].memoryUtilization }
Percents(d) == LegacyPercents(d) \cup { d.cpuAvg.a[1].a[2], d.cpuMax.a[1].a[2], d.ram.a[1].a[2] }

\* C14: with everything else valid, a document is accepted exactly when each
\* percent value (of a cpuAvg/cpuMax/ram sample, and the cpuUtilization and
\* memoryUtilization of a legacy systemUtilization sample) lies in [0, 100].
C14_PercentClamp ==
  /\ v1Result # NotCalled =>
       /\ Accepted(v1Result) <=> \A x \in Percents(doc) : IsPercent(x)
       /\ Rejected(v1Result) <=> \E x \in Percents(doc) : ~IsPercent(x)
  /\ legacyResult # NotCalled =>
       /\ Accepted(legacyResult) <=> \A x \in LegacyPercents(doc) : IsPercent(x)
       /\ Rejected(legacyResult) <=> \E x \in LegacyPercents(doc) : ~IsPercent(x)

\* Both validators have accepted a document whose percent values are 0 and 100.
C14_Witness ==
  /\ Accepted(v1Result)
  /\ Accepted(legacyResult)
  /\ doc.cpuAvg.a[1].a[2] = Num(0)
  /\ doc.cpuMax.a[1].a[2] = Num(100)
  /\ doc.ram.a[1].a[2] = Num(100)
  /\ doc.systemUtilization.o.samples.a[1].cpuUtilization = Num(0)
  /\ doc.systemUtilization.o.samples.a[1].memoryUtilization = Num(100)

\* The environmentIdx of the attempts of the document, in the tree and in the
\* root tests.
EnvironmentIdxs(d) ==
  { AttemptOf(d).environmentIdx }
    \cup { d.tests.a[k].attempts.a[1].environmentIdx : k \in DOMAIN d.tests.a }

\* x is an index into the array.
Resolves(x, array) == x.t = "number" /\ x.s = "" /\ x.n \in 0..(Len(array.a) - 1)

\* C15: a document in which the environmentIdx of some attempt, in the tree or
\* in the root tests, is not an index into the report's environments is
\* rejected.
C15_EnvironmentIdxResolves ==
  /\ (v1Result # NotCalled /\ \E x \in EnvironmentIdxs(doc) : ~Resolves(x, doc.environments))
       => Rejected(v1Result)
  /\ (legacyResult # NotCalled /\ ~Resolves(AttemptOf(doc).environmentIdx, doc.environments))
       => Rejected(legacyResult)

\* The stdout and stderr entry of the document's attempt.
StdoutOf(d) == AttemptOf(d).stdout.a[1]
StderrOf(d) == AttemptOf(d).stderr.a[1]

\* C26: a stdout/stderr entry is matched against the text option first and the
\* buffer option second.  An entry with a string text is taken as a text entry,
\* also when it has a buffer key; an entry with only a string buffer is taken
\* as a buffer entry; an entry with neither is rejected.  With everything else
\* valid the document is accepted exactly when both entries match an option.
C26_StdioFirstMatch ==
  /\ \A e \in {StdoutOf(doc), StderrOf(doc)} :
       /\ e.text.t = "string" => STDIOEntryOption(e) = 1
       /\ (e.text = Missing /\ e.buffer.t = "string") => STDIOEntryOption(e) = 2
       /\ (e.text.t # "string" /\ e.buffer.t # "string") => STDIOEntryOption(e) = 0
  /\ v1Result # NotCalled =>
       /\ Accepted(v1Result) <=> \A e \in {StdoutOf(doc), StderrOf(doc)} : STDIOEntryOption(e) # 0
       /\ Rejected(v1Result)
            <=> \E e \in {StdoutOf(doc), StderrOf(doc)} : e.text.t # "string" /\ e.buffer.t # "string"
  /\ legacyResult # NotCalled =>
       /\ Accepted(legacyResult)
            <=> \A e \in {StdoutOf(doc), StderrOf(doc)} : STDIOEntryOption(e) # 0
       /\ Rejected(legacyResult)
            <=> \E e \in {StdoutOf(doc), StderrOf(doc)} : e.text.t # "string" /\ e.buffer.t # "string"

\* Both validators have accepted a document whose stdout entry has a text and
\* a buffer and whose stderr entry has a buffer only.
C26_Witness ==
  /\ Accepted(v1Result)
  /\ Accepted(legacyResult)
  /\ StdoutOf(doc) = [text |-> Str("hello"), buffer |-> Str("aGVsbG8=")]
  /\ StderrOf(doc) = [text |-> Missing, buffer |-> Str("aGVsbG8=")]

-----------------------------------------------------------------------------
(* Properties of migrateToV1.                                              *)

\* The calls of migrateToV1 that have returned.
Returned == DOMAIN returned

\* What call k was given and what it returned.
InputOf(k) == given[k].value
OutputOf(k) == heap[returned[k]]

IsLegacy(d) == d.version = Missing

\* C16: migrateToV1 never changes the report it is given: at every moment of
\* a call and after it the argument is equal, key by key (opaqueData and
\* userSuppliedData included), to what it was when the call was made.
C16_InputNotMutated ==
  \A k \in DOMAIN given : heap[given[k].ref] = given[k].value

\* A legacy report with opaqueData at the root and in an environment has been
\* migrated.
C16_Witness ==
  /\ 1 \in Returned
  /\ IsLegacy(InputOf(1))
  /\ InputOf(1).opaqueData # Missing
  /\ Len(InputOf(1).environments.a) = MaxEnvironments
  /\ \A k \in DOMAIN InputOf(1).environments.a :
       /\ InputOf(1).environments.a[k].opaqueData # Missing
       /\ InputOf(1).environments.a[k].userSuppliedData # Missing

\* C17: migrating a report tagged version 1 returns a value equal to the
\* report, key by key.
C17_CurrentUnchanged ==
  \A k \in Returned : InputOf(k).version = Num(1) => OutputOf(k) = InputOf(k)

\* A version-1 report that still carries userSuppliedData and opaqueData has
\* been migrated.
C17_Witness ==
  /\ 1 \in Returned
  /\ InputOf(1).version = Num(1)
  /\ InputOf(1).opaqueData # Missing
  /\ Len(InputOf(1).environments.a) = 1
  /\ InputOf(1).environments.a[1].userSuppliedData # Missing
  /\ InputOf(1).environments.a[1].metadata # Missing

\* C18: for a report without a version or tagged 1, migrating what migrateToV1
\* returned gives a value equal to it.
C18_Idempotent ==
  \A j, k \in Returned :
    (InputOf(j).version \in {Missing, Num(1)} /\ given[k].ref = returned[j] /\ j < k)
      => OutputOf(k) = OutputOf(j)

\* A legacy report with userSuppliedData has been migrated and the result
\* migrated again.
C18_Witness ==
  /\ 2 \in Returned
  /\ IsLegacy(InputOf(1))
  /\ given[2].ref = returned[1]
  /\ returned[1] # 1
  /\ Len(InputOf(1).environments.a) = 1
  /\ InputOf(1).environments.a[1].userSuppliedData # Missing

\* C19: for a legacy report the output has the input's environments, in the
\* same order and with the same names, and the metadata of each is the
\* userSuppliedData of the input's environment at the same index.
C19_FieldRelocation ==
  \A k \in Returned :
    IsLegacy(InputOf(k)) =>
      /\ Len(OutputOf(k).environments.a) = Len(InputOf(k).environments.a)
      /\ \A i \in DOMAIN InputOf(k).environments.a :
           /\ OutputOf(k).environments.a[i].name = InputOf(k).environments.a[i].name
           /\ OutputOf(k).environments.a[i].metadata
                = Get(InputOf(k).environments.a[i].userSuppliedData)

\* environments: [{name: "E", userSuppliedData: {foo: "bar"}}] has been
\* migrated and the output's environment has the metadata {foo: "bar"}.
C19_Witness ==
  /\ 1 \in Returned
  /\ IsLegacy(InputOf(1))
  /\ InputOf(1).environments.a
       = <<[name |-> Str("E"), userSuppliedData |-> Str("{foo:bar}"),
            metadata |-> Missing, opaqueData |-> Missing]>>
  /\ OutputOf(1).environments.a[1].name = Str("E")
  /\ OutputOf(1).environments.a[1].metadata = Str("{foo:bar}")

\* C20: after a legacy report is migrated no environment of the output has a
\* userSuppliedData key.
C20_NoUserSuppliedDataKey ==
  \A k \in Returned :
    IsLegacy(InputOf(k)) =>
      \A i \in DOMAIN OutputOf(k).environments.a :
        OutputOf(k).environments.a[i].userSuppliedData.t = "absent"

\* C21: after a legacy report is migrated the output has no opaqueData key,
\* neither at its root nor on any of its environments.
C21_NoOpaqueDataKey ==
  \A k \in Returned :
    IsLegacy(InputOf(k)) =>
      /\ OutputOf(k).opaqueData.t = "absent"
      /\ \A i \in DOMAIN OutputOf(k).environments.a :
           OutputOf(k).environments.a[i].opaqueData.t = "absent"

\* A legacy report with opaqueData at its root and on both of its environments
\* has been migrated into a new object.
C21_Witness ==
  /\ 1 \in Returned
  /\ returned[1] # given[1].ref
  /\ IsLegacy(InputOf(1))
  /\ InputOf(1).opaqueData = Str("{k:v}")
  /\ Len(InputOf(1).environments.a) = 2
  /\ \A i \in DOMAIN InputOf(1).environments.a :
       InputOf(1).environments.a[i].opaqueData = Str("{k:v}")

\* C22: whatever report it was given, the value migrateToV1 returns has the
\* version 1.
C22_VersionStamped ==
  \A k \in Returned : OutputOf(k).version = Num(1)

\* A report tagged 2 has been migrated, into a new object.
C22_Witness ==
  /\ 1 \in Returned
  /\ InputOf(1).version = Num(2)
  /\ returned[1] # given[1].ref
  /\ OutputOf(1).version = Num(1)

\* C23: apart from opaqueData, userSuppliedData, metadata and version the
\* output of a migration has the fields of the input: the suite/test tree
\* (with its attachments and environmentIdx), the timestamps, the telemetry
\* and systemUtilization are equal, and environments has the same length and
\* the same environment (by name) at each index.
C23_OtherFieldsUnchanged ==
  \A k \in Returned :
    /\ OutputOf(k).category = InputOf(k).category
    /\ OutputOf(k).suites = InputOf(k).suites
    /\ OutputOf(k).startTimestamp = InputOf(k).startTimestamp
    /\ OutputOf(k).duration = InputOf(k).duration
    /\ OutputOf(k).systemUtilization = InputOf(k).systemUtilization
    /\ OutputOf(k).cpuAvg = InputOf(k).cpuAvg
    /\ Len(OutputOf(k).environments.a) = Len(InputOf(k).environments.a)
    /\ \A i \in DOMAIN InputOf(k).environments.a :
         OutputOf(k).environments.a[i].name = InputOf(k).environments.a[i].name

\* A legacy report with two environments of different names has been migrated
\* into a new object.
C23_Witness ==
  /\ 1 \in Returned
  /\ returned[1] # given[1].ref
  /\ IsLegacy(InputOf(1))
  /\ Len(InputOf(1).environments.a) = 2
  /\ InputOf(1).environments.a[1].name = Str("E")
  /\ InputOf(1).environments.a[2].name = Str("F")
  /\ InputOf(1).suites.a[1].tests.a[1].attempts.a[1].environmentIdx = Num(0)

\* C24: a report tagged with a version that is not older than the current one
\* (version 2) passes through migrateToV1 untouched: the output is equal to the
\* input and has the input's version.
C24_UnknownVersionUntouched ==
  \A k \in Returned :
    InputOf(k).version = Num(2) =>
      /\ OutputOf(k) = InputOf(k)
      /\ OutputOf(k).version = Num(2)

\* C29: when an environment of a version-less report has metadata and no
\* userSuppliedData, the output's environment at that index has that metadata.
C29_MetadataKept ==
  \A k \in Returned :
    IsLegacy(InputOf(k)) =>
      \A i \in DOMAIN InputOf(k).environments.a :
        (/\ InputOf(k).environments.a[i].metadata # Missing
         /\ InputOf(k).environments.a[i].userSuppliedData = Missing)
          => OutputOf(k).environments.a[i].metadata = InputOf(k).environments.a[i].metadata

\* C25: on a legacy report migrateToLatest gives what migrateToV1 gives on the
\* same report: a value with version 1, with metadata in place of
\* userSuppliedData and without opaqueData.
C25_LatestIsV1 ==
  \A k \in Returned :
    (latest # NoLatest /\ latest.arg = given[k].ref /\ IsLegacy(InputOf(k)))
      => /\ heap[latest.result] = OutputOf(k)
         /\ heap[latest.result].version = Num(1)

====
